---------------------------- MODULE Spec2Model ----------------------------
(***************************************************************************)
(* A model of the VirtualTouchscreen runtime.                              *)
(*                                                                         *)
(*   SpecQueue  the prediction thread (MaskGenerator::predictor_process)   *)
(*              and the main thread's use of the delay queue               *)
(*              (MaskGenerator::start, read_prediction, stop).             *)
(***************************************************************************)
EXTENDS Integers, Sequences, FiniteSets, TLC

VARIABLES
    \* ---- MaskGenerator, shared between the two threads
    m_Runflag,          \* bool m_Runflag (a plain bool, not atomic)
    m_FrameQueue,       \* std::vector<cv::Mat> m_FrameQueue, slot i at [i + 1]
    m_WriteIndex,       \* size_t m_WriteIndex
    m_RawFrame,         \* cv::Mat m_RawFrame
    mutexOwner,         \* who holds m_PredictionMutex
    \* ---- the prediction thread
    pcP,                \* position of predictor_process
    prediction_buffer,  \* its local cv::Mat prediction_buffer
    frame_buffer,       \* its local cv::Mat frame_buffer
    screenFrames,       \* new screen frames read() has delivered so far
    new_frame,          \* result of the last screen_capture->read
    \* ---- the main thread
    pcC,                \* position of main around the mask generator
    m_Background,       \* dst of the last read_prediction
    \* ---- history (read by the properties only)
    writeLog,           \* the frame of every completed queue write, in order
    slotWrite,          \* per slot, the number of the write that filled it
    readAt,             \* completed writes when read_prediction took the lock
    readWrite,          \* number of the write whose frame the read returned
    writesAfterClear,   \* queue writes completed since stop() cleared the flag
    lastIter,           \* what the last completed producer iteration did
    \* ---- FingerTracker
    m_TrackingMemory,   \* std::vector<std::tuple<Fingertip, int>>
    m_Candidates,       \* std::vector<std::pair<cv::Point, cv::Point>>
    m_NextID,           \* inline static size_t m_NextID
    m_TrackingResetTimer, \* int m_TrackingResetTimer
    m_TrackingRegion,   \* cv::Rect m_TrackingRegion
    \* ---- main's loop and find_touch_action
    pcM,                \* position of main inside one loop iteration
    fingertips,         \* the vector the last detect call returned
    last_fingertip,     \* thread_local Fingertip last_fingertip
    chosen_fingertip,   \* std::optional<Fingertip> chosen_fingertip of the last call
    shadow,             \* find_touch_action: countNonZero(shadow_mask(roi))
    foreground,         \* find_touch_action: countNonZero(foreground_mask(roi))
    action,             \* what the last find_touch_action call returned
    m_LeftClickDown,    \* Mouse::m_LeftClickDown
    m_RightClickDown,   \* Mouse::m_RightClickDown
    \* ---- history (read by the properties only)
    calls,              \* detect calls so far
    continues,          \* the finger one candidate of the last call continues
    issued,             \* the ids given to new fingertips, in order
    selections,         \* "none", "first" or "more" fingertips chosen so far
    frame_calls,        \* what main called on the tracker and the mouse this frame
    sent,               \* the SendInput events of this frame, in order
    last_focus,         \* the region of the last focus call, detect calls since
    \* ---- ViewCalibrator::calibrate and Calibrator::calibrate_exposure
    pcV,                \* position inside calibrate
    attempt,            \* the iteration of calibrate's loop, from 1
    camera,             \* how the camera answers: [honours, white]
    cam_exposure,       \* the value of the last cam.set(cv::CAP_PROP_EXPOSURE, ...)
    exposure_level,     \* calibrate_exposure: int exposure_level
    max_brightness,     \* calibrate_exposure: double max_brightness
    probes,             \* the exposure values set by this exposure lock, in order
    stages,             \* which detections of this iteration ran and succeeded
    screen_area,        \* contourArea of the raw screen contour of this iteration
    feedback,           \* the top text of the last feedback screen
    m_ScreenContour,    \* the contour stored, by its area and its iteration
    white_sample,       \* find_photometric_model: the corrected white sample
    m_ReflectanceMap,   \* per pixel and channel, a binary32 value
    photometric,        \* calls of find_photometric_model so far
    produced,           \* per member, the iteration that last wrote it
    \* ---- Calibrator::capture_image
    pcK,                \* position inside capture_image
    capture_samples,    \* its argument capture_samples
    shown,              \* the image is on the screen
    slept,              \* the settle time has passed
    grabs,              \* frames taken by drop_frame
    reads,              \* frames taken by next_frame
    average,            \* the sum accumulated in average
    dst,                \* the pixel value in dst, -1 while dst is empty
    sampled,            \* the values of the sample frames accumulated
    \* ---- ViewCalibrator::detect_screen
    pcS,                \* position inside detect_screen
    screen_contour,     \* the four vertices approxPolyDP left, in pixels
    corners,            \* the refined corners, in quarter pixels
    ordered_corners,    \* std::vector<cv::Point2f> ordered_corners(4)
    detected,           \* "ok" for a returned contour, "failed" for std::nullopt
    \* ---- FingerTracker::detect, the hull walk of one contour
    pcH,                \* position inside the walk
    m_Extremities,      \* the hull points, each with its point and arc_score
    offset,             \* size_t offset
    walk_i,             \* the loop variable i
    walk_last,          \* int last: <<"contour", n>> or <<"hull", position>>
    best,               \* int best, as an index into m_Extremities or -1
    best_score,         \* int best_score
    walk_candidates,    \* what the walk has put on m_Candidates, in order
    \* ---- ViewCalibrator::find_photometric_model, the colour map
    pcL,                \* position inside the loop over the two patterns
    lut_k,              \* the loop variable k
    lut_r,              \* the loop variable r
    lut_c,              \* the loop variable c
    pattern,            \* cv::Mat pattern(16, 16), by linear index, as grid colours
    m_ColourMap,        \* std::array<cv::Vec3f, 512>: the grid colour measured
    slot_writes,        \* per slot of m_ColourMap, the writes so far
    \* ---- the process: main and the prediction thread from start to exit
    pcX,                \* position of main
    pcT,                \* position of the prediction thread
    exit_code,          \* what the process exited with, <<>> while it runs
    webcam_opened,      \* "yes" or "no" once Webcam::TryCreate returned
    capture_opened,     \* "yes" or "no" once sv::ScreenCapture::Open returned
    runflag,            \* m_Runflag of main's mask_generator
    frames,             \* camera frames webcam->next_frame has delivered
    segments,           \* calls of mask_generator.segment
    moves,              \* calls of mouse.move
    the_mouse,          \* main's Mouse: the buttons held and every event sent
    iterations,         \* completed iterations of the prediction thread's loop
    \* ---- ViewCalibrator::predict
    pcD,                \* position inside predict
    pixel_i,            \* the pixel of src that forEach is at, from 1
    colour,             \* const cv::Vec3b& colour
    cell,               \* the lambda's int x, y, z
    lut_reads           \* the eight indices into m_ColourMap, in order

qvars == <<m_Runflag, m_FrameQueue, m_WriteIndex, m_RawFrame, mutexOwner,
           pcP, prediction_buffer, frame_buffer, screenFrames, new_frame,
           pcC, m_Background,
           writeLog, slotWrite, readAt, readWrite, writesAfterClear, lastIter>>

tvars == <<m_TrackingMemory, m_Candidates, m_NextID, m_TrackingResetTimer,
           m_TrackingRegion, pcM, fingertips, last_fingertip, chosen_fingertip,
           shadow, foreground, action, m_LeftClickDown, m_RightClickDown,
           calls, continues, issued, selections, frame_calls, sent,
           last_focus>>

\* the tracker's state apart from the tracking region and its timer
ovars == <<m_TrackingMemory, m_Candidates, m_NextID,
           pcM, fingertips, last_fingertip, chosen_fingertip,
           shadow, foreground, action, m_LeftClickDown, m_RightClickDown,
           calls, continues, issued, selections, frame_calls, sent,
           last_focus>>

cvars == <<pcV, attempt, camera, cam_exposure, exposure_level,
           max_brightness, probes,
           stages, screen_area, feedback, m_ScreenContour, white_sample,
           m_ReflectanceMap, photometric, produced>>

kvars == <<pcK, capture_samples, shown, slept, grabs, reads, average, dst,
           sampled>>

svars == <<pcS, screen_contour, corners, ordered_corners, detected>>

\* the state of the operations that are modelled on their own
hvars == <<pcH, m_Extremities, offset, walk_i, walk_last, best, best_score,
           walk_candidates>>

lvars == <<pcL, lut_k, lut_r, lut_c, pattern, m_ColourMap, slot_writes>>

pvars == <<pcX, pcT, exit_code, webcam_opened, capture_opened, runflag,
           frames, segments, moves, the_mouse, iterations>>

dvars == <<pcD, pixel_i, colour, cell, lut_reads>>

xvars == <<svars, hvars, lvars, pvars, dvars>>

\* the state of the runtime and of calibrate
rvars == <<qvars, tvars, cvars, kvars>>

vars == <<rvars, xvars>>

-----------------------------------------------------------------------------
(* Program constants and model bounds                                        *)

\* constexpr int prediction_delay = 3
prediction_delay == 3

\* most queue writes the prediction thread performs in one run of the model
MaxWrites == 5

\* most new screen frames the screen capture delivers in one run of the model
MaxScreenFrames == 2

\* A frame is named by a number: ZeroFrame is a buffer set to zeros, k > 0 is
\* the prediction of (or the resized capture of) the k-th new screen frame,
\* and a negative number is the content of a buffer that was allocated and
\* never written.
ZeroFrame == 0

Indeterminate == {-1, -2}

\* calibrator.predict(frame_buffer, prediction_buffer) for the k-th screen frame
PredictionOf(k) == k

NoIter == [wrote |-> 0, index_before |-> 0, index_after |-> 0,
           new_frame |-> FALSE, frame |-> ZeroFrame, seen |-> 0]

-----------------------------------------------------------------------------
(* The delay queue                                                           *)

QueueSize == Len(m_FrameQueue)

\* (mutant of ReadIndex: the slot written last instead of the slot at the index)
ReadIndexNewest == (m_WriteIndex + QueueSize - 1) % QueueSize

\* m_FrameQueue[m_WriteIndex] in read_prediction
ReadIndex == m_WriteIndex

\* m_WriteIndex = (m_WriteIndex + 1) % m_FrameQueue.size()
NextWriteIndex == (m_WriteIndex + 1) % QueueSize

\* (mutant of CanLock: a section entered without waiting for the mutex)
CanLockUnguarded(thread) == TRUE

\* std::unique_lock lock(m_PredictionMutex) returns only when the mutex is free
CanLock(thread) == mutexOwner = "none"

\* (mutant of RunflagRead: a cleared flag can still be read as set, as when
\* the load is kept in a register across iterations)
RunflagReadStale == IF m_Runflag THEN {TRUE} ELSE {FALSE, TRUE}

\* The values a read of m_Runflag by the prediction thread can yield.
\* while(m_Runflag) loads the flag at the head of every iteration, and each
\* iteration calls screen_capture->read and locks m_PredictionMutex, so the
\* load is not carried over from an earlier iteration: it yields the value the
\* flag has when the loop head is reached.
RunflagRead == {m_Runflag}

-----------------------------------------------------------------------------
(* FingerTracker: constants, inputs and helpers                              *)

\* constexpr auto MAX_TRACKING_RANGE = 75
MAX_TRACKING_RANGE == 75

\* constexpr auto MAX_TRACKING_LIFE = 10
MAX_TRACKING_LIFE == 10

\* constexpr auto FOCUS_RESET_TIME = 10
FOCUS_RESET_TIME == 10

\* #define CALIB_OUTPUT_WIDTH 640
CALIB_OUTPUT_WIDTH == 640

\* #define CALIB_OUTPUT_HEIGHT 480
CALIB_OUTPUT_HEIGHT == 480

\* constexpr size_t MIN_FINGER_AGE = 5
MIN_FINGER_AGE == 5

\* int touch_thresh = 20, hover_thresh = 30
touch_thresh == 20

hover_thresh == 30

\* finger_tracker.focus(point, cv::Size(256, 256))
FocusSize == 256

\* SpecMain: most detect calls, most candidates the hull walk hands to the
\* matching stage in one call, and most fingertip ids issued, in one run
MaxCalls == 11

MaxCandidates == 2

MaxIDs == 3

\* SpecMatch: the same three bounds
MatchCalls == 3

MatchCandidates == 2

MatchIDs == 3

\* SpecTouch: detect calls and the largest pixel count of a roi
TouchCalls == 2

MaxRoiCount == 10

\* SpecMouse: calls of the Mouse's button operations
MaxMouseCalls == 4

\* SpecCalib: iterations of calibrate's loop
MaxAttempts == 3

\* SpecCalib: the exposure values told apart are 0 .. -MaxExposureSteps
MaxExposureSteps == 5

\* SpecCalib: the probes of one exposure lock that are remembered
MaxProbes == 6

\* SpecCapture: the largest capture_samples
MaxSamples == 3

\* SpecProcess: camera frames before the stream ends, and iterations of
\* the prediction thread's loop
MaxStreamFrames == 3

MaxIterations == 2

\* the pixels of the image given to predict
PixelCount == 2

\* SpecScreen: the size of the mask detect_screen works on
MaskCols == 640

MaskRows == 480

\* The fingertip positions the hull walk can report.  P and Q are 74 px apart,
\* P and R exactly 75 px, Q and R 1 px, and S is far from all of them, outside
\* the rectangle that focus() puts around any of the others.
TipP == <<100, 100>>

TipQ == <<174, 100>>

TipR == <<175, 100>>

TipS == <<400, 300>>

\* SpecMain: one finger position near the corner, one far away
MainTips == {TipP, TipS}

\* SpecMatch: three finger positions close to one another
MatchTips == {TipP, TipQ, TipR}

Max(a, b) == IF a > b THEN a ELSE b

Min(a, b) == IF a < b THEN a ELSE b

\* The fingers of the model: a finger reaches its tip from the left or from
\* the bottom edge of the frame, is 2 * half + 1 pixels wide and ends in
\* two diagonal flanks that meet in the tip.  The widths are ones for which
\* the hull walk reports the tip: on a long narrow finger the corners of the
\* flanks score higher than the tip and are reported in its place.
FingerAt(tip) ==
    IF tip = TipP THEN [from |-> "left", half |-> 10]
    ELSE IF tip = TipS THEN [from |-> "bottom", half |-> 15]
    ELSE [from |-> "left", half |-> 15]

\* contour[(best - 15 + size) % size] and contour[(best + 15) % size] for
\* such a finger: 15 steps along the 8-connected contour on either side of
\* the tip, down the flank and then along the finger's side
ContourAround(tip, finger) ==
    LET side == Min(15, finger.half)
    IN  IF finger.from = "left"
        THEN <<<<tip[1] - 15, tip[2] - side>>, <<tip[1] - 15, tip[2] + side>>>>
        ELSE <<<<tip[1] - side, tip[2] + 15>>, <<tip[1] + side, tip[2] + 15>>>>

\* the centre of mass the hull walk stores with a tip: the sum of the two
\* contour points, divided by 2 as integers
ComOf(around) ==
    <<(around[1][1] + around[2][1]) \div 2,
      (around[1][2] + around[2][2]) \div 2>>

\* cv::countNonZero of the shadow and the foreground mask in the roi; a
\* shadow pixel is a foreground pixel, so shadow <= foreground
RoiCounts == {<<0, 0>>, <<0, 10>>, <<2, 10>>, <<3, 10>>, <<4, 10>>}

\* SpecTouch: every pair of counts up to MaxRoiCount
WatchedCounts == {c \in (0..MaxRoiCount) \X (0..MaxRoiCount) : c[1] <= c[2]}

\* cv::Point::dot of the offset with itself
DistSqr(p, q) == (p[1] - q[1]) * (p[1] - q[1]) + (p[2] - q[2]) * (p[2] - q[2])

\* struct Fingertip default member initialisers: age = 0, id = 0
DefaultFingertip == [point |-> <<0, 0>>, com |-> <<0, 0>>, age |-> 0, id |-> 0]

\* cv::Rect(): the region before the first detect call
EmptyRegion == [x |-> 0, y |-> 0, width |-> 0, height |-> 0]

\* detect: m_TrackingRegion reset to the mask's full size
FullRegion == [x |-> 0, y |-> 0, width |-> CALIB_OUTPUT_WIDTH,
               height |-> CALIB_OUTPUT_HEIGHT]

\* FingerTracker::focus: the rectangle around the point, clamped to the frame
FocusRegion(point) ==
    LET half == FocusSize \div 2
        tlx == Max(point[1] - half, 0)
        tly == Max(point[2] - half, 0)
        brx == Min(point[1] + half, CALIB_OUTPUT_WIDTH - 1)
        bry == Min(point[2] + half, CALIB_OUTPUT_HEIGHT - 1)
    IN  [x |-> tlx, y |-> tly, width |-> brx - tlx, height |-> bry - tly]

\* FingerTracker::edge_test
edge_test(pt, region) ==
    \/ pt[1] = region.x
    \/ pt[2] = region.y
    \/ pt[1] = region.x + region.width - 1
    \/ pt[2] = region.y + region.height - 1

\* A tip the hull walk can report in a region: a contour point of
\* mask(region) that is not on the region's edge (arc_score is 0 there).
InRegion(pt, region) ==
    /\ pt[1] >= region.x /\ pt[1] < region.x + region.width
    /\ pt[2] >= region.y /\ pt[2] < region.y + region.height
    /\ ~edge_test(pt, region)

\* m_Candidates as the hull walk can leave it: distinct tips inside the region
CandidateLists(region, tip_points, max_candidates) ==
    LET tips == {t \in tip_points : InRegion(t, region)}
        lists == UNION {[1..n -> tips] : n \in 0..max_candidates}
    IN  {[k \in 1..Len(l) |->
              [first |-> l[k],
               second |-> ComOf(ContourAround(l[k], FingerAt(l[k])))]] :
            l \in {x \in lists : \A i, j \in 1..Len(x) : x[i] = x[j] => i = j}}

\* std::swap(v[i], v.back()); v.pop_back()   (i counts from 0)
SwapPop(v, i) ==
    [k \in 1..(Len(v) - 1) |-> IF k = i + 1 THEN v[Len(v)] ELSE v[k]]

\* detect: the loop over c that finds the closest candidate within range;
\* the result is match_index, -1 when there is none
RECURSIVE ClosestFrom(_, _, _, _, _)
ClosestFrom(c, candidates, point, closest_distance_sqr, match_index) ==
    IF c >= Len(candidates) THEN match_index
    ELSE LET distance_sqr == DistSqr(point, candidates[c + 1].first)
         IN  IF distance_sqr < closest_distance_sqr
             THEN ClosestFrom(c + 1, candidates, point, distance_sqr, c)
             ELSE ClosestFrom(c + 1, candidates, point, closest_distance_sqr,
                              match_index)

\* detect: closest_distance_sqr starts at pow(MAX_TRACKING_RANGE, 2)
MatchIndex(point, candidates) ==
    ClosestFrom(0, candidates, point,
                MAX_TRACKING_RANGE * MAX_TRACKING_RANGE, -1)

\* (mutant of MatchLoop: no m-- after a match, so the entry swapped into
\* the place is passed over)
RECURSIVE MatchLoopSkipping(_, _, _, _)
MatchLoopSkipping(m, memory, candidates, out) ==
    IF m >= Len(memory)
    THEN [memory |-> memory, candidates |-> candidates, fingertips |-> out]
    ELSE LET finger == memory[m + 1].finger
             match_index == MatchIndex(finger.point, candidates)
         IN  IF match_index >= 0
             THEN MatchLoopSkipping(m + 1, SwapPop(memory, m),
                            SwapPop(candidates, match_index),
                            Append(out, [point |-> candidates[match_index + 1].first,
                                         com |-> candidates[match_index + 1].second,
                                         age |-> finger.age + 1,
                                         id |-> finger.id]))
             ELSE MatchLoopSkipping(m + 1, memory, candidates, out)

\* (mutant of NewFingertips: m_NextID++ left out, every new fingertip of a
\* call gets the same id)
NewFingertipsSameID(candidates, next_id) ==
    [k \in 1..Len(candidates) |->
        [point |-> candidates[k].first, com |-> candidates[k].second,
         age |-> 1, id |-> next_id]]

\* detect: the loop over m that matches tracked fingertips with candidates.
\* A matched entry and its candidate are swapped to the back and popped, and
\* m-- makes the loop look at the entry that took the place.
RECURSIVE MatchLoop(_, _, _, _)
MatchLoop(m, memory, candidates, out) ==
    IF m >= Len(memory)
    THEN [memory |-> memory, candidates |-> candidates, fingertips |-> out]
    ELSE LET finger == memory[m + 1].finger
             match_index == MatchIndex(finger.point, candidates)
         IN  IF match_index >= 0
             THEN MatchLoop(m, SwapPop(memory, m),
                            SwapPop(candidates, match_index),
                            Append(out, [point |-> candidates[match_index + 1].first,
                                         com |-> candidates[match_index + 1].second,
                                         age |-> finger.age + 1,
                                         id |-> finger.id]))
             ELSE MatchLoop(m + 1, memory, candidates, out)

\* detect: the remaining candidates become fingertips of age 1 with the ids
\* m_NextID, m_NextID + 1, ...
NewFingertips(candidates, next_id) ==
    [k \in 1..Len(candidates) |->
        [point |-> candidates[k].first, com |-> candidates[k].second,
         age |-> 1, id |-> next_id + k - 1]]

\* (mutant of DecayLoop: the entry swapped into place is skipped)
RECURSIVE DecayLoopSkipping(_, _)
DecayLoopSkipping(m, memory) ==
    IF m >= Len(memory) THEN memory
    ELSE IF memory[m + 1].life - 1 <= 0
         THEN DecayLoopSkipping(m + 1, SwapPop(memory, m))
         ELSE DecayLoopSkipping(m + 1,
                  [memory EXCEPT ![m + 1].life = memory[m + 1].life - 1])

\* update_tracking_memory: the loop that decrements life and removes the dead
RECURSIVE DecayLoop(_, _)
DecayLoop(m, memory) ==
    IF m >= Len(memory) THEN memory
    ELSE IF memory[m + 1].life - 1 <= 0
         THEN DecayLoop(m, SwapPop(memory, m))
         ELSE DecayLoop(m + 1,
                  [memory EXCEPT ![m + 1].life = memory[m + 1].life - 1])

\* FingerTracker::update_tracking_memory
update_tracking_memory(memory, emitted) ==
    DecayLoop(0, memory)
        \o [k \in 1..Len(emitted) |-> [finger |-> emitted[k],
                                       life |-> MAX_TRACKING_LIFE]]

\* detect from the matching stage on: what it returns and leaves behind
Track(memory, candidates, next_id) ==
    LET matched == MatchLoop(0, memory, candidates, <<>>)
        emitted == matched.fingertips
                       \o NewFingertips(matched.candidates, next_id)
    IN  [fingertips |-> emitted,
         matched |-> Len(matched.fingertips),
         memory |-> update_tracking_memory(matched.memory, emitted),
         next_id |-> next_id + Len(matched.candidates)]

-----------------------------------------------------------------------------
(* find_touch_action                                                         *)

\* (mutant of SelectLoop: no break at the remembered id)
RECURSIVE SelectLoopNoBreak(_, _, _, _, _)
SelectLoopNoBreak(i, list, last_id, oldest_age, chosen) ==
    IF i > Len(list) THEN chosen
    ELSE IF list[i].id = last_id
         THEN SelectLoopNoBreak(i + 1, list, last_id, oldest_age, <<list[i]>>)
         ELSE IF list[i].age >= oldest_age
              THEN SelectLoopNoBreak(i + 1, list, last_id, list[i].age, <<list[i]>>)
              ELSE SelectLoopNoBreak(i + 1, list, last_id, oldest_age, chosen)

\* The loop over the fingertips: chosen_fingertip as a list of none or one
RECURSIVE SelectLoop(_, _, _, _, _)
SelectLoop(i, list, last_id, oldest_age, chosen) ==
    IF i > Len(list) THEN chosen
    ELSE IF list[i].id = last_id
         THEN <<list[i]>>
         ELSE IF list[i].age >= oldest_age
              THEN SelectLoop(i + 1, list, last_id, list[i].age, <<list[i]>>)
              ELSE SelectLoop(i + 1, list, last_id, oldest_age, chosen)

\* chosen_fingertip after the loop, oldest_age starting at MIN_FINGER_AGE
Choose(list, last) == SelectLoop(1, list, last.id, MIN_FINGER_AGE, <<>>)

\* A binary32 value is "nan", "inf", "zero" or a number m * 2^(-e) with
\* 2^23 <= m < 2^24 (the counts and thresholds are non-negative, and far
\* from the subnormal and the overflow range).
FloatMantissaBits == 24

\* n * 2^e brought into [2^23 * d, 2^24 * d) by doubling: <<n * 2^e, e>>
RECURSIVE FloatScale(_, _, _)
FloatScale(n, d, e) ==
    IF n >= 2 ^ (FloatMantissaBits - 1) * d THEN <<n, e>>
    ELSE FloatScale(2 * n, d, e + 1)

\* static_cast<float>(n) / static_cast<float>(d) for integers 0 <= n, d with
\* n < 2^24 * d: the IEEE quotient, rounded to nearest, ties to even
FloatDiv(n, d) ==
    IF d = 0 THEN [kind |-> IF n = 0 THEN "nan" ELSE "inf", m |-> 0, e |-> 0]
    ELSE IF n = 0 THEN [kind |-> "zero", m |-> 0, e |-> 0]
    ELSE LET scaled == FloatScale(n, d, 0)
             q == scaled[1] \div d
             r == scaled[1] % d
             up == 2 * r > d \/ (2 * r = d /\ q % 2 = 1)
             m == IF up THEN q + 1 ELSE q
         IN  IF m = 2 ^ FloatMantissaBits
             THEN [kind |-> "num", m |-> 2 ^ (FloatMantissaBits - 1),
                   e |-> scaled[2] - 1]
             ELSE [kind |-> "num", m |-> m, e |-> scaled[2]]

\* a <= b on these values; every comparison with a NaN is false
FloatLeq(a, b) ==
    CASE a.kind = "nan" \/ b.kind = "nan" -> FALSE
      [] b.kind = "inf" -> TRUE
      [] a.kind = "inf" -> FALSE
      [] a.kind = "zero" -> TRUE
      [] b.kind = "zero" -> FALSE
      [] OTHER -> a.e > b.e \/ (a.e = b.e /\ a.m <= b.m)

\* (mutant of RatioAtMost: the test is ratio < thresh / 100.0f)
RatioBelow(shadow_count, foreground_count, thresh) ==
    /\ FloatLeq(FloatDiv(shadow_count, foreground_count), FloatDiv(thresh, 100))
    /\ ~FloatLeq(FloatDiv(thresh, 100), FloatDiv(shadow_count, foreground_count))

\* The ratio tests: ratio = float(shadow) / float(foreground), compared with
\* static_cast<float>(thresh) / 100.0f
RatioAtMost(shadow_count, foreground_count, thresh) ==
    FloatLeq(FloatDiv(shadow_count, foreground_count), FloatDiv(thresh, 100))

\* what find_touch_action returns for the chosen fingertip: none or one tuple
Decision(chosen, shadow_count, foreground_count) ==
    IF chosen = <<>> THEN <<>>
    ELSE IF RatioAtMost(shadow_count, foreground_count, touch_thresh)
         THEN <<[point |-> chosen[1].point, touch |-> TRUE]>>
         ELSE IF RatioAtMost(shadow_count, foreground_count, hover_thresh)
              THEN <<[point |-> chosen[1].point, touch |-> FALSE]>>
              ELSE <<>>

\* (mutant of Remembered: the fingertip is remembered only when acted on)
RememberedIfActedOn(chosen, result, last) ==
    IF result = <<>> THEN last ELSE chosen[1]

\* last_fingertip = *chosen_fingertip, when a fingertip was chosen
Remembered(chosen, result, last) ==
    IF chosen = <<>> THEN last ELSE chosen[1]

-----------------------------------------------------------------------------
(* main's loop: detect, find_touch_action, then the tracker and the mouse    *)

NoTag == [id |-> -1, point |-> <<0, 0>>, from |-> <<0, 0>>]

\* FingerTracker::FingerTracker, Mouse::Mouse, the statics and the locals
TrackerInit ==
    /\ m_TrackingMemory = <<>>
    /\ m_Candidates = <<>>
    /\ m_NextID = 0
    /\ m_TrackingResetTimer = 0
    /\ m_TrackingRegion = EmptyRegion
    /\ pcM = "detect"
    /\ fingertips = <<>>
    /\ last_fingertip = DefaultFingertip
    /\ chosen_fingertip = <<>>
    /\ action = <<>>
    /\ m_LeftClickDown = FALSE
    /\ m_RightClickDown = FALSE
    /\ calls = 0
    /\ continues = NoTag
    /\ issued = <<>>
    /\ selections = "none"
    /\ shadow = 0
    /\ foreground = 0
    /\ frame_calls = <<>>
    /\ sent = <<>>
    /\ last_focus = <<>>

\* The marks a call can carry: none, or one candidate named as the
\* continuation of a finger the previous call emitted (whose entry was stored
\* with full life), with the tip that finger had.
Continuable(memory, candidates) ==
    {NoTag} \cup
    {[id |-> memory[m].finger.id, point |-> candidates[c].first,
      from |-> memory[m].finger.point] :
        m \in {k \in 1..Len(memory) : memory[k].life = MAX_TRACKING_LIFE},
        c \in 1..Len(candidates)}

\* Mouse::hold_left on the mouse's state [left, right, sent]
hold_left(mouse) ==
    [left |-> TRUE, right |-> mouse.right,
     sent |-> Append(mouse.sent, "LEFTDOWN")]

\* Mouse::hold_right
hold_right(mouse) ==
    [left |-> mouse.left, right |-> TRUE,
     sent |-> Append(mouse.sent, "RIGHTDOWN")]

\* (mutant of release_hold: the release of the left button is unconditional)
release_hold_always(mouse) ==
    [left |-> FALSE, right |-> FALSE,
     sent |-> Append(mouse.sent, "LEFTUP")
                \o (IF mouse.right THEN <<"RIGHTUP">> ELSE <<>>)]

\* Mouse::release_hold
release_hold(mouse) ==
    [left |-> FALSE, right |-> FALSE,
     sent |-> mouse.sent \o (IF mouse.left THEN <<"LEFTUP">> ELSE <<>>)
                         \o (IF mouse.right THEN <<"RIGHTUP">> ELSE <<>>)]

\* the Mouse object as the operators above take it
TheMouse == [left |-> m_LeftClickDown, right |-> m_RightClickDown, sent |-> sent]

\* (mutant of RegionAfter: the region is reset one call later)
RegionAfterLate(timer, region) ==
    IF timer < 0 THEN FullRegion ELSE region

\* detect: the region once the timer was decremented, reset to the mask's
\* full size when the timer is at or below 0
RegionAfter(timer, region) ==
    IF timer <= 0 THEN FullRegion ELSE region

\* FingerTracker::detect, first part: the timer and the region, then the
\* contours and the hull walk, which leave the candidates in m_Candidates
FindCandidates(tip_points, max_calls, max_candidates, max_ids, marked) ==
    /\ pcM = "detect"
    /\ calls < max_calls
    /\ LET timer == m_TrackingResetTimer - 1
           region == RegionAfter(timer, m_TrackingRegion)
       IN  /\ m_TrackingResetTimer' = timer
           /\ m_TrackingRegion' = region
           /\ \E candidates \in CandidateLists(region, tip_points, max_candidates) :
                /\ Track(m_TrackingMemory, candidates, m_NextID).next_id <= max_ids
                /\ m_Candidates' = candidates
                /\ continues' \in IF marked
                                  THEN Continuable(m_TrackingMemory, candidates)
                                  ELSE {NoTag}
    /\ calls' = calls + 1
    /\ frame_calls' = <<>>
    /\ sent' = <<>>
    /\ last_focus' = IF last_focus = <<>> THEN <<>>
                     ELSE <<[last_focus[1] EXCEPT !.detects = @ + 1]>>
    /\ pcM' = "track"
    /\ UNCHANGED <<m_TrackingMemory, m_NextID, fingertips, last_fingertip,
                   chosen_fingertip, shadow, foreground, action,
                   m_LeftClickDown, m_RightClickDown, issued, selections>>
    /\ UNCHANGED <<qvars, cvars, kvars, xvars>>

\* the first part of detect in SpecMain
Detect == FindCandidates(MainTips, MaxCalls, MaxCandidates, MaxIDs, FALSE)

\* the first part of detect in SpecMatch, with the mark
DetectMarked ==
    FindCandidates(MatchTips, MatchCalls, MatchCandidates, MatchIDs, TRUE)

\* the first part of detect in SpecTouch
DetectFew == FindCandidates(MainTips, TouchCalls, MaxCandidates, MaxIDs, FALSE)

\* FingerTracker::detect, second part: matching, new fingertips,
\* m_Candidates.clear() and update_tracking_memory
TrackCandidates ==
    /\ pcM = "track"
    /\ LET r == Track(m_TrackingMemory, m_Candidates, m_NextID)
       IN  /\ fingertips' = r.fingertips
           /\ m_TrackingMemory' = r.memory
           /\ m_NextID' = r.next_id
           /\ issued' = issued \o
                  [k \in 1..(Len(r.fingertips) - r.matched) |->
                      r.fingertips[r.matched + k].id]
    /\ m_Candidates' = <<>>
    /\ pcM' = "decide"
    /\ UNCHANGED <<m_TrackingResetTimer, m_TrackingRegion, last_fingertip,
                   chosen_fingertip, shadow, foreground, action,
                   m_LeftClickDown, m_RightClickDown, calls, continues,
                   selections, frame_calls, sent, last_focus>>
    /\ UNCHANGED <<qvars, cvars, kvars, xvars>>

\* find_touch_action, the roi counts drawn from roi_counts; the counts are
\* kept in shadow and foreground when watched
FindTouchAction(roi_counts, watched) ==
    /\ pcM = "decide"
    /\ \E counts \in roi_counts :
         LET chosen == Choose(fingertips, last_fingertip)
             result == Decision(chosen, counts[1], counts[2])
         IN  /\ chosen_fingertip' = chosen
             /\ shadow' = IF watched /\ chosen # <<>> THEN counts[1] ELSE 0
             /\ foreground' = IF watched /\ chosen # <<>> THEN counts[2] ELSE 0
             /\ action' = result
             /\ last_fingertip' = Remembered(chosen, result, last_fingertip)
             /\ selections' = IF chosen = <<>> THEN selections
                              ELSE IF selections = "none" THEN "first"
                                   ELSE "more"
    /\ pcM' = "act"
    /\ UNCHANGED <<m_TrackingMemory, m_Candidates, m_NextID,
                   m_TrackingResetTimer, m_TrackingRegion, fingertips,
                   m_LeftClickDown, m_RightClickDown, calls, continues, issued,
                   frame_calls, sent, last_focus>>
    /\ UNCHANGED <<qvars, cvars, kvars, xvars>>

\* find_touch_action in SpecMain and SpecMatch
Decide == FindTouchAction(RoiCounts, FALSE)

\* find_touch_action in SpecTouch
DecideWatched == FindTouchAction(WatchedCounts, TRUE)

\* (mutant of MouseAfter: a hover releases the buttons)
MouseAfterHoverReleases(result, mouse) ==
    IF result # <<>>
    THEN IF result[1].touch THEN hold_left(mouse) ELSE release_hold(mouse)
    ELSE release_hold(mouse)

\* main: what the frame does to the mouse's buttons, if(touch)
\* mouse.hold_left() after an action and mouse.release_hold() after none
MouseAfter(result, mouse) ==
    IF result # <<>>
    THEN IF result[1].touch THEN hold_left(mouse) ELSE mouse
    ELSE release_hold(mouse)

\* (mutant of CallsAfter: focus and move only for a touch)
CallsAfterTouchOnly(result) ==
    IF result # <<>> /\ result[1].touch
    THEN <<[op |-> "focus", point |-> result[1].point, size |-> FocusSize],
           [op |-> "move", point |-> result[1].point, smoothing |-> TRUE],
           [op |-> "hold_left"]>>
    ELSE IF result # <<>> THEN <<>> ELSE <<[op |-> "release_hold"]>>

\* main: the calls a frame makes on the tracker and the mouse once
\* find_touch_action has returned
CallsAfter(result) ==
    IF result # <<>>
    THEN <<[op |-> "focus", point |-> result[1].point, size |-> FocusSize],
           [op |-> "move", point |-> result[1].point, smoothing |-> TRUE]>>
         \o (IF result[1].touch THEN <<[op |-> "hold_left"]>> ELSE <<>>)
    ELSE <<[op |-> "release_hold"]>>

\* main: focus, move and hold_left on an action, release_hold on none
Act ==
    /\ pcM = "act"
    /\ IF action # <<>>
       THEN /\ m_TrackingRegion' = FocusRegion(action[1].point)
            /\ m_TrackingResetTimer' = FOCUS_RESET_TIME
            /\ last_focus' = <<[region |-> FocusRegion(action[1].point),
                                detects |-> 0]>>
       ELSE UNCHANGED <<m_TrackingRegion, m_TrackingResetTimer, last_focus>>
    /\ LET mouse == MouseAfter(action, TheMouse)
       IN  /\ m_LeftClickDown' = mouse.left
           /\ m_RightClickDown' = mouse.right
           /\ sent' = mouse.sent
    /\ frame_calls' = frame_calls \o CallsAfter(action)
    /\ pcM' = "detect"
    /\ UNCHANGED <<m_TrackingMemory, m_Candidates, m_NextID, fingertips,
                   last_fingertip, chosen_fingertip, shadow, foreground,
                   action, calls, continues, issued, selections>>
    /\ UNCHANGED <<qvars, cvars, kvars, xvars>>

MainNext ==
    \/ Detect
    \/ TrackCandidates
    \/ Decide
    \/ Act

MatchNext ==
    \/ DetectMarked
    \/ TrackCandidates
    \/ Decide
    \/ Act

TouchNext ==
    \/ DetectFew
    \/ TrackCandidates
    \/ DecideWatched
    \/ Act

-----------------------------------------------------------------------------
(* The Mouse on its own: any sequence of its button operations               *)

\* one call of an operation of the Mouse, noted in frame_calls
MouseCall(name, mouse) ==
    /\ Len(frame_calls) < MaxMouseCalls
    /\ frame_calls' = Append(frame_calls, [op |-> name])
    /\ m_LeftClickDown' = mouse.left
    /\ m_RightClickDown' = mouse.right
    /\ sent' = mouse.sent
    /\ UNCHANGED <<m_TrackingMemory, m_Candidates, m_NextID,
                   m_TrackingResetTimer, m_TrackingRegion, pcM, fingertips,
                   last_fingertip, chosen_fingertip, shadow, foreground,
                   action, calls, continues, issued, selections, last_focus>>
    /\ UNCHANGED <<qvars, cvars, kvars, xvars>>

HoldLeft == MouseCall("hold_left", hold_left(TheMouse))

HoldRight == MouseCall("hold_right", hold_right(TheMouse))

ReleaseHold == MouseCall("release_hold", release_hold(TheMouse))

MouseNext ==
    \/ HoldLeft
    \/ HoldRight
    \/ ReleaseHold

-----------------------------------------------------------------------------
(* The main thread                                                           *)

\* MaskGenerator::MaskGenerator and the state before main reaches start()
QueueInit ==
    /\ m_Runflag = FALSE
    /\ m_FrameQueue = <<>>
    /\ m_WriteIndex = 0
    /\ m_RawFrame = ZeroFrame
    /\ mutexOwner = "none"
    /\ pcP = "unstarted"
    /\ prediction_buffer = ZeroFrame
    /\ frame_buffer = ZeroFrame
    /\ screenFrames = 0
    /\ new_frame = FALSE
    /\ pcC = "start"
    /\ m_Background = ZeroFrame
    /\ writeLog = <<>>
    /\ slotWrite = <<>>
    /\ readAt = 0
    /\ readWrite = 0
    /\ writesAfterClear = 0
    /\ lastIter = NoIter

\* MaskGenerator::start: allocate m_RawFrame, fill the queue with zero frames,
\* reset the index, set the flag and launch the prediction thread.
Start ==
    /\ pcC = "start"
    /\ m_FrameQueue' = [i \in 1..prediction_delay |-> ZeroFrame]
    /\ slotWrite' = [i \in 1..prediction_delay |-> 0]
    /\ m_WriteIndex' = 0
    /\ m_RawFrame' \in Indeterminate
    /\ m_Runflag' = TRUE
    /\ pcP' = "open"
    /\ pcC' = "loop"
    /\ UNCHANGED <<mutexOwner, prediction_buffer, frame_buffer,
                   screenFrames, new_frame, m_Background, writeLog, readAt,
                   readWrite, writesAfterClear, lastIter>>
    /\ UNCHANGED <<tvars, cvars, kvars, xvars>>

\* main's loop head, while(webcam->next_frame(raw_frame)): a frame goes on to
\* segment(), which asserts the flag and calls read_prediction; the end of
\* the camera stream goes on to stop().
NextFrame ==
    /\ pcC = "loop"
    /\ \E got \in BOOLEAN : pcC' = IF got THEN "rp_lock" ELSE "stop"
    /\ UNCHANGED <<m_Runflag, m_FrameQueue, m_WriteIndex, m_RawFrame,
                   mutexOwner, pcP, prediction_buffer, frame_buffer,
                   screenFrames, new_frame, m_Background, writeLog, slotWrite,
                   readAt, readWrite, writesAfterClear, lastIter>>
    /\ UNCHANGED <<tvars, cvars, kvars, xvars>>

\* read_prediction: std::unique_lock lock(m_PredictionMutex)
ReadLock ==
    /\ pcC = "rp_lock"
    /\ CanLock("consumer")
    /\ mutexOwner' = "consumer"
    /\ readAt' = Len(writeLog)
    /\ pcC' = "rp_copy"
    /\ UNCHANGED <<m_Runflag, m_FrameQueue, m_WriteIndex, m_RawFrame, pcP,
                   prediction_buffer, frame_buffer, screenFrames, new_frame,
                   m_Background, writeLog, slotWrite, readWrite,
                   writesAfterClear, lastIter>>
    /\ UNCHANGED <<tvars, cvars, kvars, xvars>>

\* read_prediction: m_FrameQueue[m_WriteIndex].copyTo(dst)
ReadCopy ==
    /\ pcC = "rp_copy"
    /\ m_Background' = m_FrameQueue[ReadIndex + 1]
    /\ readWrite' = slotWrite[ReadIndex + 1]
    /\ pcC' = "rp_unlock"
    /\ UNCHANGED <<m_Runflag, m_FrameQueue, m_WriteIndex, m_RawFrame,
                   mutexOwner, pcP, prediction_buffer, frame_buffer,
                   screenFrames, new_frame, writeLog, slotWrite, readAt,
                   writesAfterClear, lastIter>>
    /\ UNCHANGED <<tvars, cvars, kvars, xvars>>

\* read_prediction returns: the lock's destructor releases the mutex
ReadUnlock ==
    /\ pcC = "rp_unlock"
    /\ mutexOwner' = IF mutexOwner = "consumer" THEN "none" ELSE mutexOwner
    /\ pcC' = "loop"
    /\ UNCHANGED <<m_Runflag, m_FrameQueue, m_WriteIndex, m_RawFrame, pcP,
                   prediction_buffer, frame_buffer, screenFrames, new_frame,
                   m_Background, writeLog, slotWrite, readAt, readWrite,
                   writesAfterClear, lastIter>>
    /\ UNCHANGED <<tvars, cvars, kvars, xvars>>

\* MaskGenerator::stop: m_Runflag = false
StopClear ==
    /\ pcC = "stop"
    /\ m_Runflag' = FALSE
    /\ pcC' = "join"
    /\ UNCHANGED <<m_FrameQueue, m_WriteIndex, m_RawFrame, mutexOwner, pcP,
                   prediction_buffer, frame_buffer, screenFrames, new_frame,
                   m_Background, writeLog, slotWrite, readAt, readWrite,
                   writesAfterClear, lastIter>>
    /\ UNCHANGED <<tvars, cvars, kvars, xvars>>

\* MaskGenerator::stop: m_PredictionThread.join() returns once the thread ended
StopJoin ==
    /\ pcC = "join"
    /\ pcP = "done"
    /\ pcC' = "joined"
    /\ UNCHANGED <<m_Runflag, m_FrameQueue, m_WriteIndex, m_RawFrame,
                   mutexOwner, pcP, prediction_buffer, frame_buffer,
                   screenFrames, new_frame, m_Background, writeLog, slotWrite,
                   readAt, readWrite, writesAfterClear, lastIter>>
    /\ UNCHANGED <<tvars, cvars, kvars, xvars>>

-----------------------------------------------------------------------------
(* The prediction thread: MaskGenerator::predictor_process                   *)

\* sv::ScreenCapture::Open: on failure exit(-1) ends the process, the main
\* thread included, wherever it is; on success
\* the buffers are allocated (cv::Mat(size, type) does not initialise them).
OpenCapture ==
    /\ pcP = "open"
    /\ \E opened \in BOOLEAN :
         IF opened
         THEN /\ pcP' = "head"
              /\ prediction_buffer' \in Indeterminate
              /\ frame_buffer' \in Indeterminate
              /\ pcC' = pcC
         ELSE /\ pcP' = "exit"
              /\ pcC' = "exit"
              /\ UNCHANGED <<prediction_buffer, frame_buffer>>
    /\ UNCHANGED <<m_Runflag, m_FrameQueue, m_WriteIndex, m_RawFrame,
                   mutexOwner, screenFrames, new_frame, m_Background,
                   writeLog, slotWrite, readAt, readWrite, writesAfterClear,
                   lastIter>>
    /\ UNCHANGED <<tvars, cvars, kvars, xvars>>

\* while(m_Runflag)
LoopHead ==
    /\ pcP = "head"
    /\ \E flag \in RunflagRead :
         IF flag
         THEN /\ Len(writeLog) < MaxWrites
              /\ pcP' = "read"
         ELSE pcP' = "done"
    /\ UNCHANGED <<m_Runflag, m_FrameQueue, m_WriteIndex, m_RawFrame,
                   mutexOwner, prediction_buffer, frame_buffer, screenFrames,
                   new_frame, pcC, m_Background, writeLog, slotWrite, readAt,
                   readWrite, writesAfterClear, lastIter>>
    /\ UNCHANGED <<tvars, cvars, kvars, xvars>>

\* screen_capture->read(raw_capture, PREDICTION_RATE_MS - 1): with a new frame,
\* convert, resize into frame_buffer and predict into prediction_buffer; on a
\* timeout both buffers keep what they held.  Then the thread yields until the
\* 16 ms of the iteration have passed.
ReadScreen ==
    /\ pcP = "read"
    /\ \E got \in BOOLEAN :
         /\ got => screenFrames < MaxScreenFrames
         /\ new_frame' = got
         /\ IF got
            THEN /\ screenFrames' = screenFrames + 1
                 /\ frame_buffer' = screenFrames + 1
                 /\ prediction_buffer' = PredictionOf(screenFrames + 1)
            ELSE UNCHANGED <<screenFrames, frame_buffer, prediction_buffer>>
    /\ pcP' = "lock"
    /\ UNCHANGED <<m_Runflag, m_FrameQueue, m_WriteIndex, m_RawFrame,
                   mutexOwner, pcC, m_Background, writeLog, slotWrite, readAt,
                   readWrite, writesAfterClear, lastIter>>
    /\ UNCHANGED <<tvars, cvars, kvars, xvars>>

\* std::unique_lock lock(m_PredictionMutex)
WriteLock ==
    /\ pcP = "lock"
    /\ CanLock("producer")
    /\ mutexOwner' = "producer"
    /\ pcP' = "copy"
    /\ UNCHANGED <<m_Runflag, m_FrameQueue, m_WriteIndex, m_RawFrame,
                   prediction_buffer, frame_buffer, screenFrames, new_frame,
                   pcC, m_Background, writeLog, slotWrite, readAt, readWrite,
                   writesAfterClear, lastIter>>
    /\ UNCHANGED <<tvars, cvars, kvars, xvars>>

\* prediction_buffer.copyTo(m_FrameQueue[m_WriteIndex])
WriteCopy ==
    /\ pcP = "copy"
    /\ m_FrameQueue' = [m_FrameQueue EXCEPT ![m_WriteIndex + 1] = prediction_buffer]
    /\ slotWrite' = [slotWrite EXCEPT ![m_WriteIndex + 1] = Len(writeLog) + 1]
    /\ pcP' = "advance"
    /\ UNCHANGED <<m_Runflag, m_WriteIndex, m_RawFrame, mutexOwner,
                   prediction_buffer, frame_buffer, screenFrames, new_frame,
                   pcC, m_Background, writeLog, readAt, readWrite,
                   writesAfterClear, lastIter>>
    /\ UNCHANGED <<tvars, cvars, kvars, xvars>>

\* m_WriteIndex = (m_WriteIndex + 1) % m_FrameQueue.size()
WriteAdvance ==
    /\ pcP = "advance"
    /\ m_WriteIndex' = NextWriteIndex
    /\ writeLog' = Append(writeLog, m_FrameQueue[m_WriteIndex + 1])
    /\ writesAfterClear' = IF m_Runflag THEN writesAfterClear
                           ELSE writesAfterClear + 1
    /\ lastIter' = [wrote |-> Len(writeLog) + 1,
                    index_before |-> m_WriteIndex,
                    index_after |-> NextWriteIndex,
                    new_frame |-> new_frame,
                    frame |-> m_FrameQueue[m_WriteIndex + 1],
                    seen |-> screenFrames]
    /\ pcP' = "raw"
    /\ UNCHANGED <<m_Runflag, m_FrameQueue, m_RawFrame, mutexOwner,
                   prediction_buffer, frame_buffer, screenFrames, new_frame,
                   pcC, m_Background, slotWrite, readAt, readWrite>>
    /\ UNCHANGED <<tvars, cvars, kvars, xvars>>

\* frame_buffer.copyTo(m_RawFrame), then the lock's scope ends
WriteUnlock ==
    /\ pcP = "raw"
    /\ m_RawFrame' = frame_buffer
    /\ mutexOwner' = IF mutexOwner = "producer" THEN "none" ELSE mutexOwner
    /\ pcP' = "head"
    /\ UNCHANGED <<m_Runflag, m_FrameQueue, m_WriteIndex, prediction_buffer,
                   frame_buffer, screenFrames, new_frame, pcC, m_Background,
                   writeLog, slotWrite, readAt, readWrite, writesAfterClear,
                   lastIter>>
    /\ UNCHANGED <<tvars, cvars, kvars, xvars>>

-----------------------------------------------------------------------------

\* the steps of the prediction thread
PredictorNext ==
    \/ OpenCapture
    \/ LoopHead
    \/ ReadScreen
    \/ WriteLock
    \/ WriteCopy
    \/ WriteAdvance
    \/ WriteUnlock

QueueNext ==
    \/ Start
    \/ NextFrame
    \/ ReadLock
    \/ ReadCopy
    \/ ReadUnlock
    \/ StopClear
    \/ StopJoin
    \/ OpenCapture
    \/ LoopHead
    \/ ReadScreen
    \/ WriteLock
    \/ WriteCopy
    \/ WriteAdvance
    \/ WriteUnlock

\* the state when main has constructed its objects and reaches start()
-----------------------------------------------------------------------------
(* ViewCalibrator::calibrate                                                 *)

\* calibrate(webcam, CALIB_MIN_COVERAGE, ...): contourArea(m_ScreenContour)
\* < min_coverage * m_OutputResolution.area(), with min_coverage = 0.1f and
\* the area 640 * 480; the binary32 product 0.1f * 307200 is 30720
CoverageThreshold == (CALIB_OUTPUT_WIDTH * CALIB_OUTPUT_HEIGHT) \div 10

\* areas a raw screen contour can have, in pixels
ScreenAreas == {CoverageThreshold \div 2, CoverageThreshold - 1,
                CoverageThreshold, 2 * CoverageThreshold}

\* the detections of find_geometric_model, in the order they run
StageNames == <<"screen", "chessboard", "corrected_screen",
                "corrected_chessboard">>

NoStages == [n \in 1..4 |-> "none"]

\* The outcomes of one find_geometric_model call: each detection succeeds
\* or fails, and the first failure returns, so the later ones do not run.
StageOutcomes ==
    {o \in [1..4 -> {"ok", "failed", "none"}] :
        /\ o[1] # "none"
        /\ \A n \in 2..4 : (o[n] # "none") <=> (o[n - 1] = "ok")}

\* (mutant of HasCorners: the detections on the lens-corrected samples are
\* not looked at)
HasCornersRaw(o) == o[1] = "ok" /\ o[2] = "ok"

\* find_geometric_model returns the corners iff no detection failed
HasCorners(o) == \A n \in 1..4 : o[n] = "ok"

\* (mutant of GeometryStored: the homography is stored once the raw
\* detections have succeeded)
GeometryStoredEarly(o) == o[2] = "ok"

\* find_geometric_model stores m_ViewHomography and m_CorrectionMap after the
\* last of its detections has returned corners
GeometryStored(o) == o[4] = "ok"

\* calibrate: the coverage test
BelowCoverage(area) == area < CoverageThreshold

\* What the camera measures as brightest gray value of the white screen at
\* an exposure value: a camera that honours the property loses CameraStep
\* per step below 0, one that ignores it measures the same at every value;
\* 8-bit pixels saturate at 255.
CameraStep == 8

MaxBrightness(cam, exposure) ==
    Min(255, IF cam.honours THEN cam.white + CameraStep * exposure
             ELSE cam.white)

\* the brightness of the white screen at exposure 0, before saturation
WhiteLevels == {240, 255, 270}

Cameras == [honours : BOOLEAN, white : WhiteLevels]

\* calibrate_exposure(webcam, 250, window_name)
brightness_target == 250

\* The corrected white samples of the model: PhotoPixels pixels of three
\* channels with values in PhotoValues
PhotoPixels == 2

PhotoValues == {0, 60}

WhiteSamples == [1..PhotoPixels -> [1..3 -> PhotoValues]]

RECURSIVE SumTo(_, _, _)
SumTo(n, sample, ch) ==
    IF n = 0 THEN 0 ELSE sample[n][ch] + SumTo(n - 1, sample, ch)

\* find_photometric_model: ref[ch] = response[ch] / white_point[ch], where
\* white_point = cv::mean(white_sample) is the channel's sum over the count
Reflectance(sample) ==
    [p \in 1..Len(sample) |->
        [ch \in 1..3 |->
            FloatDiv(sample[p][ch] * Len(sample),
                     SumTo(Len(sample), sample, ch))]]

NoContour == [area |-> 0, attempt |-> 0]

\* The loop iteration of calibrate that last wrote each member of the
\* calibration, 0 for the value the constructor left
NotProduced == [m_ScreenContour |-> 0, m_ViewHomography |-> 0,
                m_CorrectionMap |-> 0, m_ReflectanceMap |-> 0,
                m_ColourMap |-> 0]

\* before the webcam was looked at
NoCamera == [honours |-> FALSE, white |-> 0]

CalibInit ==
    /\ pcV = "start"
    /\ attempt = 1
    /\ camera = NoCamera
    /\ cam_exposure = 0
    /\ exposure_level = 0
    /\ max_brightness = 0
    /\ probes = <<>>
    /\ stages = NoStages
    /\ screen_area = 0
    /\ feedback = ""
    /\ m_ScreenContour = NoContour
    /\ white_sample = <<>>
    /\ m_ReflectanceMap = <<>>
    /\ photometric = 0
    /\ produced = NotProduced

\* calibrate: the first feedback screen, left by a key press; the webcam
\* turns out to be one of Cameras
StartFeedback ==
    /\ pcV = "start"
    /\ camera' \in Cameras
    /\ feedback' = "Please ensure the entire screen is visible and in focus!"
    /\ pcV' = "exposure"
    /\ UNCHANGED <<attempt, cam_exposure, exposure_level, max_brightness,
                   probes,
                   stages, screen_area, m_ScreenContour, white_sample,
                   m_ReflectanceMap, photometric>>
    /\ UNCHANGED <<produced, qvars, tvars, kvars, xvars>>

\* the head of calibrate's loop and of calibrate_exposure
ExposureBegin ==
    /\ pcV = "exposure"
    /\ exposure_level' = 0
    /\ probes' = <<>>
    /\ stages' = NoStages
    /\ screen_area' = 0
    /\ pcV' = "probe"
    /\ UNCHANGED <<attempt, camera, cam_exposure, max_brightness, feedback, m_ScreenContour,
                   white_sample, m_ReflectanceMap, photometric>>
    /\ UNCHANGED <<produced, qvars, tvars, kvars, xvars>>

\* calibrate_exposure's do-while: cam.set(cv::CAP_PROP_EXPOSURE,
\* exposure_level--).  Exposure values below -MaxExposureSteps are folded
\* into that value, and probes keeps the first MaxProbes values.
SetExposure ==
    /\ pcV = "probe"
    /\ cam_exposure' = exposure_level
    /\ probes' = IF Len(probes) < MaxProbes THEN Append(probes, exposure_level)
                 ELSE probes
    /\ exposure_level' = Max(exposure_level - 1, -MaxExposureSteps)
    /\ pcV' = "measure"
    /\ UNCHANGED <<attempt, camera, max_brightness, stages, screen_area,
                   feedback, m_ScreenContour, white_sample, m_ReflectanceMap,
                   photometric>>
    /\ UNCHANGED <<produced, qvars, tvars, kvars, xvars>>

\* calibrate_exposure's do-while: capture white, measure, test
Measure ==
    /\ pcV = "measure"
    /\ LET measured == MaxBrightness(camera, cam_exposure)
       IN  /\ max_brightness' = measured
           /\ pcV' = IF measured > brightness_target THEN "probe" ELSE "colours"
    /\ UNCHANGED <<attempt, camera, cam_exposure, exposure_level, probes,
                   stages, screen_area, feedback, m_ScreenContour,
                   white_sample, m_ReflectanceMap, photometric>>
    /\ UNCHANGED <<produced, qvars, tvars, kvars, xvars>>

\* calibrate: the four colour samples and the chessboard sample
CaptureSamples ==
    /\ pcV = "colours"
    /\ pcV' = "geometric"
    /\ UNCHANGED <<attempt, camera, cam_exposure, exposure_level,
                   max_brightness, probes,
                   stages, screen_area, feedback, m_ScreenContour,
                   white_sample, m_ReflectanceMap, photometric>>
    /\ UNCHANGED <<produced, qvars, tvars, kvars, xvars>>

\* calibrate: find_geometric_model and what calibrate does with its result
FindGeometricModel ==
    /\ pcV = "geometric"
    /\ \E o \in StageOutcomes, area \in ScreenAreas :
         /\ stages' = o
         /\ screen_area' = IF o[1] = "ok" THEN area ELSE 0
         /\ LET stored == IF GeometryStored(o)
                          THEN [produced EXCEPT
                                   !.m_ViewHomography = attempt,
                                   !.m_CorrectionMap = attempt]
                          ELSE produced
            IN  IF HasCorners(o)
                THEN /\ m_ScreenContour' =
                          [area |-> area, attempt |-> attempt]
                     /\ produced' =
                          [stored EXCEPT !.m_ScreenContour = attempt]
                     /\ pcV' = "coverage"
                     /\ UNCHANGED feedback
                ELSE /\ feedback' =
                          "Failed to find screen or chessboard corners"
                     /\ produced' = stored
                     /\ pcV' = "feedback"
                     /\ UNCHANGED m_ScreenContour
    /\ UNCHANGED <<attempt, camera, cam_exposure, exposure_level,
                   max_brightness, probes,
                   white_sample, m_ReflectanceMap, photometric>>
    /\ UNCHANGED <<qvars, tvars, kvars, xvars>>

\* calibrate: the coverage check
CoverageCheck ==
    /\ pcV = "coverage"
    /\ IF BelowCoverage(m_ScreenContour.area)
       THEN /\ feedback' = "Please move the camera closer"
            /\ pcV' = "feedback"
       ELSE /\ pcV' = "photometric"
            /\ UNCHANGED feedback
    /\ UNCHANGED <<attempt, camera, cam_exposure, exposure_level,
                   max_brightness, probes,
                   stages, screen_area, m_ScreenContour, white_sample,
                   m_ReflectanceMap, photometric>>
    /\ UNCHANGED <<produced, qvars, tvars, kvars, xvars>>

\* show_feedback returns at a key press and calibrate's loop continues
FeedbackKey ==
    /\ pcV = "feedback"
    /\ attempt < MaxAttempts
    /\ attempt' = attempt + 1
    /\ pcV' = "exposure"
    /\ UNCHANGED <<camera, cam_exposure, exposure_level, max_brightness, probes, stages,
                   screen_area, feedback, m_ScreenContour, white_sample,
                   m_ReflectanceMap, photometric>>
    /\ UNCHANGED <<produced, qvars, tvars, kvars, xvars>>

\* calibrate: correct the samples, find_photometric_model, break
FindPhotometricModel ==
    /\ pcV = "photometric"
    /\ \E sample \in WhiteSamples :
         /\ white_sample' = sample
         /\ m_ReflectanceMap' = Reflectance(sample)
    /\ produced' = [produced EXCEPT !.m_ReflectanceMap = attempt,
                                    !.m_ColourMap = attempt]
    /\ photometric' = photometric + 1
    /\ pcV' = "done"
    /\ UNCHANGED <<attempt, camera, cam_exposure, exposure_level,
                   max_brightness, probes,
                   stages, screen_area, feedback, m_ScreenContour>>
    /\ UNCHANGED <<qvars, tvars, kvars, xvars>>

CalibNext ==
    \/ StartFeedback
    \/ ExposureBegin
    \/ SetExposure
    \/ Measure
    \/ CaptureSamples
    \/ FindGeometricModel
    \/ CoverageCheck
    \/ FeedbackKey
    \/ FindPhotometricModel

-----------------------------------------------------------------------------
(* Calibrator::capture_image                                                 *)

\* the pixel value a camera frame can have
FrameValues == {10, 11, 13}

\* average.convertTo(dst, CV_8UC3) of average / capture_samples: the
\* quotient rounded to the nearest integer, ties to even
RoundedMean(sum, n) ==
    LET q == sum \div n
        r == sum % n
    IN  IF 2 * r > n \/ (2 * r = n /\ q % 2 = 1) THEN q + 1 ELSE q

CaptureInit ==
    /\ pcK = "idle"
    /\ capture_samples = 0
    /\ shown = FALSE
    /\ slept = FALSE
    /\ grabs = 0
    /\ reads = 0
    /\ average = 0
    /\ dst = -1
    /\ sampled = <<>>

\* a call of capture_image with capture_samples >= 1 (CV_Assert)
CaptureBegin ==
    /\ pcK = "idle"
    /\ capture_samples' \in 1..MaxSamples
    /\ pcK' = "show"
    /\ UNCHANGED <<shown, slept, grabs, reads, average, dst, sampled>>
    /\ UNCHANGED <<qvars, tvars, cvars, xvars>>

\* make_fullscreen_window, cv::imshow, cv::pollKey
ShowImage ==
    /\ pcK = "show"
    /\ shown' = TRUE
    /\ pcK' = "sleep"
    /\ UNCHANGED <<capture_samples, slept, grabs, reads, average, dst, sampled>>
    /\ UNCHANGED <<qvars, tvars, cvars, xvars>>

\* std::this_thread::sleep_for(settle_time_ms)
Settle ==
    /\ pcK = "sleep"
    /\ slept' = TRUE
    /\ pcK' = "drop"
    /\ UNCHANGED <<capture_samples, shown, grabs, reads, average, dst, sampled>>
    /\ UNCHANGED <<qvars, tvars, cvars, xvars>>

\* one of the three webcam.drop_frame() calls
DropFrame ==
    /\ pcK = "drop"
    /\ grabs' = grabs + 1
    /\ pcK' = IF grabs + 1 = 3 THEN "burn" ELSE "drop"
    /\ UNCHANGED <<capture_samples, shown, slept, reads, average, dst, sampled>>
    /\ UNCHANGED <<qvars, tvars, cvars, xvars>>

\* one of the three webcam.next_frame(dst) calls that follow them
BurnFrame ==
    /\ pcK = "burn"
    /\ dst' \in FrameValues
    /\ reads' = reads + 1
    /\ pcK' = IF reads + 1 < 3 THEN "burn"
              ELSE IF capture_samples > 1 THEN "sample" ELSE "done"
    /\ UNCHANGED <<capture_samples, shown, slept, grabs, average, sampled>>
    /\ UNCHANGED <<qvars, tvars, cvars, xvars>>

\* one iteration of the averaging loop: next_frame(dst), accumulate
SampleFrame ==
    /\ pcK = "sample"
    /\ Len(sampled) < capture_samples
    /\ \E value \in FrameValues :
         /\ dst' = value
         /\ average' = average + value
         /\ sampled' = Append(sampled, value)
    /\ reads' = reads + 1
    /\ UNCHANGED <<pcK, capture_samples, shown, slept, grabs>>
    /\ UNCHANGED <<qvars, tvars, cvars, xvars>>

\* cv::divide(average, capture_samples), average.convertTo(dst, CV_8UC3)
DivideAverage ==
    /\ pcK = "sample"
    /\ Len(sampled) = capture_samples
    /\ dst' = RoundedMean(average, capture_samples)
    /\ pcK' = "done"
    /\ UNCHANGED <<capture_samples, shown, slept, grabs, reads, average,
                   sampled>>
    /\ UNCHANGED <<qvars, tvars, cvars, xvars>>

CaptureNext ==
    \/ CaptureBegin
    \/ ShowImage
    \/ Settle
    \/ DropFrame
    \/ BurnFrame
    \/ SampleFrame
    \/ DivideAverage

-----------------------------------------------------------------------------
(* ViewCalibrator::detect_screen, from the simplified contour on             *)

\* the x and y coordinates a vertex of the contour can have
VertexXs == {0, 160, 320, 480, MaskCols - 1}

VertexYs == {0, 120, 240, 360, MaskRows - 1}

\* z component of (b - a) x (c - b)
Cross(a, b, c) ==
    (b[1] - a[1]) * (c[2] - b[2]) - (b[2] - a[2]) * (c[1] - b[1])

\* The contours approxPolyDP can leave with four vertices on given
\* coordinates: strictly convex quadrilaterals, walked in either direction from any vertex.
Quadrilaterals(xs, ys) ==
    {q \in [1..4 -> xs \X ys] :
        LET turn(i) == Cross(q[i], q[(i % 4) + 1], q[((i + 1) % 4) + 1])
        IN  \/ \A i \in 1..4 : turn(i) > 0
            \/ \A i \in 1..4 : turn(i) < 0}

\* detect_screen: the border test of one vertex
TouchesBorder(vertex) ==
    \/ vertex[1] <= 0
    \/ vertex[2] <= 0
    \/ vertex[1] >= MaskCols - 1
    \/ vertex[2] >= MaskRows - 1

\* what cv::cornerSubPix can add to a corner, in quarter pixels
SubPixShifts == {<<0, 0>>, <<1, -1>>}

\* the results cv::cornerSubPix can have for a contour, in quarter pixels
RefinedCorners(contour) ==
    {[i \in 1..4 |-> <<4 * contour[i][1] + d[i][1],
                       4 * contour[i][2] + d[i][2]>>] :
        d \in [1..4 -> SubPixShifts]}

\* detect_screen: the index a corner is stored at.  total is the sum of the
\* four corners, so corner < centroid is 4 * corner < total.
QuadrantIndex(corner, total) ==
    IF 4 * corner[1] < total[1]
    THEN (IF 4 * corner[2] < total[2] THEN 0 ELSE 1)
    ELSE (IF 4 * corner[2] < total[2] THEN 3 ELSE 2)

RECURSIVE OrderLoop(_, _, _, _)
OrderLoop(i, cs, total, ordered) ==
    IF i > Len(cs) THEN ordered
    ELSE OrderLoop(i + 1, cs, total,
                   [ordered EXCEPT ![QuadrantIndex(cs[i], total) + 1] = cs[i]])

\* detect_screen: the re-ordering loop over corners, on ordered_corners(4)
OrderCorners(cs) ==
    LET total == <<cs[1][1] + cs[2][1] + cs[3][1] + cs[4][1],
                   cs[1][2] + cs[2][2] + cs[3][2] + cs[4][2]>>
    IN  OrderLoop(1, cs, total, [n \in 1..4 |-> <<0, 0>>])

ScreenInit ==
    /\ pcS = "idle"
    /\ screen_contour = <<>>
    /\ corners = <<>>
    /\ ordered_corners = <<>>
    /\ detected = "none"

\* approxPolyDP left four vertices
ScreenContourFound ==
    /\ pcS = "idle"
    /\ screen_contour' \in Quadrilaterals(VertexXs, VertexYs)
    /\ pcS' = "border"
    /\ UNCHANGED <<corners, ordered_corners, detected>>
    /\ UNCHANGED <<rvars, hvars, lvars, pvars, dvars>>

\* the loop that copies the vertices and tests them against the border
BorderTest ==
    /\ pcS = "border"
    /\ IF \E i \in 1..4 : TouchesBorder(screen_contour[i])
       THEN /\ detected' = "failed"
            /\ pcS' = "done"
       ELSE /\ pcS' = "refine"
            /\ UNCHANGED detected
    /\ UNCHANGED <<screen_contour, corners, ordered_corners>>
    /\ UNCHANGED <<rvars, hvars, lvars, pvars, dvars>>

\* cv::cornerSubPix(mask, corners, ...)
CornerSubPix ==
    /\ pcS = "refine"
    /\ corners' \in RefinedCorners(screen_contour)
    /\ pcS' = "order"
    /\ UNCHANGED <<screen_contour, ordered_corners, detected>>
    /\ UNCHANGED <<rvars, hvars, lvars, pvars, dvars>>

\* the re-ordering loop and return ordered_corners
ReorderAndReturn ==
    /\ pcS = "order"
    /\ ordered_corners' = OrderCorners(corners)
    /\ detected' = "ok"
    /\ pcS' = "done"
    /\ UNCHANGED <<screen_contour, corners>>
    /\ UNCHANGED <<rvars, hvars, lvars, pvars, dvars>>

ScreenNext ==
    \/ ScreenContourFound
    \/ BorderTest
    \/ CornerSubPix
    \/ ReorderAndReturn

-----------------------------------------------------------------------------
(* FingerTracker::detect: arc tests and non-max suppression on one hull      *)

\* constexpr auto ARC_MIN_SCORE = 50
ARC_MIN_SCORE == 50

\* constexpr auto NONMAX_PROXIMIITY = 500
NONMAX_PROXIMIITY == 500

\* constexpr auto MIN_CONTOUR_AREA = 500
MIN_CONTOUR_AREA == 500

\* A convex polygon in hull order: two points on the left edge of the frame,
\* two pairs of points less than NONMAX_PROXIMIITY apart, the pairs far from
\* each other and from the edge.
HullPolygon == <<<<0, 100>>, <<200, 50>>, <<210, 52>>, <<400, 200>>,
                 <<410, 215>>, <<0, 300>>>>

\* The points main can have called focus with before the walk: the region
\* around (328, 178) holds the polygon's points 2 to 5 with (200, 50) in its
\* corner
FocusPoints == {<<328, 178>>}

\* what the angle loop of arc_score can count for a point off the edge
ArcCounts == {0, 50, 60, 70}

\* arc_score: 0 on the edge of the tracking region, else the count
arc_score(pt, count, region) == IF edge_test(pt, region) THEN 0 ELSE count

\* mask(m_TrackingRegion) with the offset m_TrackingRegion.tl(): a contour
\* point lies in the region
Contains(region, pt) ==
    /\ pt[1] >= region.x /\ pt[1] < region.x + region.width
    /\ pt[2] >= region.y /\ pt[2] < region.y + region.height

RECURSIVE SubSeqOf(_, _, _)
\* the points of seq at the positions in keep, in order
SubSeqOf(seq, keep, n) ==
    IF n = 0 THEN <<>>
    ELSE IF n \in keep THEN Append(SubSeqOf(seq, keep, n - 1), seq[n])
         ELSE SubSeqOf(seq, keep, n - 1)

\* seq read from position k + 1 on, cyclically
Rotated(seq, k) ==
    [n \in 1..Len(seq) |-> seq[((n - 1 + k) % Len(seq)) + 1]]

\* What cv::convexHull can give for a contour in the region whose hull points
\* are among the polygon's: three or more of them, in hull order, starting
\* anywhere, each with its arc_score.
Hulls(polygon, region) ==
    UNION {
      LET pts == SubSeqOf(polygon, keep, Len(polygon))
      IN  {[n \in 1..Len(pts) |->
               [pt |-> Rotated(pts, k)[n],
                score |-> arc_score(Rotated(pts, k)[n], counts[n], region)]] :
             k \in 0..(Len(pts) - 1), counts \in [1..Len(pts) -> ArcCounts]}
      : keep \in {k \in SUBSET (1..Len(polygon)) :
                     /\ Cardinality(k) >= 3
                     /\ \A n \in k : Contains(region, polygon[n])} }

RECURSIVE ShoelaceSum(_, _)
\* the sum of pts[k] x pts[k + 1] over the first n points, cyclically
ShoelaceSum(pts, n) ==
    IF n = 0 THEN 0
    ELSE LET p == pts[n].pt
             q == pts[(n % Len(pts)) + 1].pt
         IN  (p[1] * q[2] - q[1] * p[2]) + ShoelaceSum(pts, n - 1)

\* twice the area of the hull's polygon
HullArea2(hull) ==
    LET sum == ShoelaceSum(hull, Len(hull))
    IN  IF sum < 0 THEN -sum ELSE sum

\* Twice what cv::contourArea can give for a contour with this hull: the
\* area just below MIN_CONTOUR_AREA, that area, and the area of the hull
\* itself; a contour is not larger than its hull.
ContourAreas2(hull) ==
    {a \in {2 * MIN_CONTOUR_AREA - 1, 2 * MIN_CONTOUR_AREA, HullArea2(hull)} :
        a <= HullArea2(hull)}

RECURSIVE FirstEdge(_, _, _)
\* the loop that looks for an edge point: the first position (from 0) of a
\* point on the edge of the tracking region, Len(hull) if there is none
FirstEdge(hull, k, region) ==
    IF k >= Len(hull) THEN Len(hull)
    ELSE IF edge_test(hull[k + 1].pt, region) THEN k
         ELSE FirstEdge(hull, k + 1, region)

HullInit ==
    /\ pcH = "idle"
    /\ m_Extremities = <<>>
    /\ offset = 0
    /\ walk_i = 0
    /\ walk_last = <<"contour", 0>>
    /\ best = -1
    /\ best_score = ARC_MIN_SCORE
    /\ walk_candidates = <<>>

\* FingerTracker::focus, called by main after an earlier frame
Focus ==
    /\ pcH = "idle"
    /\ \E point \in FocusPoints : m_TrackingRegion' = FocusRegion(point)
    /\ m_TrackingResetTimer' = FOCUS_RESET_TIME
    /\ pcH' = "focused"
    /\ UNCHANGED <<m_Extremities, offset, walk_i, walk_last, best, best_score,
                   walk_candidates>>
    /\ UNCHANGED <<qvars, ovars, cvars, kvars, svars, lvars, pvars, dvars>>

\* detect up to findContours: the timer is decremented, and the region is
\* reset to the whole mask when the timer is at or below 0
UpdateRegion ==
    /\ pcH \in {"idle", "focused"}
    /\ m_TrackingResetTimer' = m_TrackingResetTimer - 1
    /\ m_TrackingRegion' =
          RegionAfter(m_TrackingResetTimer - 1, m_TrackingRegion)
    /\ pcH' = "contour"
    /\ UNCHANGED <<m_Extremities, offset, walk_i, walk_last, best, best_score,
                   walk_candidates>>
    /\ UNCHANGED <<qvars, ovars, cvars, kvars, svars, lvars, pvars, dvars>>

\* a contour of area below MIN_CONTOUR_AREA: continue, without convexHull
SkipContour ==
    /\ pcH = "contour"
    /\ \E hull \in Hulls(HullPolygon, m_TrackingRegion) :
         \E area2 \in ContourAreas2(hull) : area2 < 2 * MIN_CONTOUR_AREA
    /\ pcH' = "skipped"
    /\ UNCHANGED <<m_Extremities, offset, walk_i, walk_last, best, best_score,
                   walk_candidates>>
    /\ UNCHANGED <<rvars, svars, lvars, pvars, dvars>>

\* a contour of area MIN_CONTOUR_AREA or more: convexHull, the search for an
\* edge point, the initialisation of the walk with last = offset
HullFound ==
    /\ pcH = "contour"
    /\ \E hull \in Hulls(HullPolygon, m_TrackingRegion) :
         /\ \E area2 \in ContourAreas2(hull) : area2 >= 2 * MIN_CONTOUR_AREA
         /\ m_Extremities' = hull
         /\ offset' = FirstEdge(hull, 0, m_TrackingRegion)
         /\ walk_last' = <<"contour", FirstEdge(hull, 0, m_TrackingRegion)>>
    /\ walk_i' = 0
    /\ best' = -1
    /\ best_score' = ARC_MIN_SCORE
    /\ walk_candidates' = <<>>
    /\ pcH' = "walk"
    /\ UNCHANGED <<rvars, svars, lvars, pvars, dvars>>

\* the proximity test of the walk: a point farther than NONMAX_PROXIMIITY
\* from the last one saves the best of the cluster, if there is one, and
\* starts a new cluster
AfterProximity(far, w) ==
    IF far
    THEN [best |-> -1, best_score |-> ARC_MIN_SCORE,
          out |-> IF w.best # -1
                  THEN Append(w.out, m_Extremities[w.best + 1].pt)
                  ELSE w.out]
    ELSE [best |-> w.best, best_score |-> w.best_score, out |-> w.out]

\* v.dot(v) > NONMAX_PROXIMIITY for v = contour[index] - contour[last].
\* While last is still offset it names a contour point the hull does not
\* tell, and the test can go either way.
FarFromLast(point, last) ==
    IF last[1] = "hull"
    THEN {DistSqr(point, m_Extremities[last[2] + 1].pt) > NONMAX_PROXIMIITY}
    ELSE BOOLEAN

\* one iteration of the walk
WalkStep ==
    /\ pcH = "walk"
    /\ walk_i < Len(m_Extremities)
    /\ LET index == (offset + walk_i) % Len(m_Extremities)
           point == m_Extremities[index + 1].pt
           score == m_Extremities[index + 1].score
       IN  \E far \in FarFromLast(point, walk_last) :
             LET w == AfterProximity(far, [best |-> best,
                                           best_score |-> best_score,
                                           out |-> walk_candidates])
             IN  /\ walk_last' = <<"hull", index>>
                 /\ walk_candidates' = w.out
                 /\ IF score > w.best_score
                    THEN best_score' = score /\ best' = index
                    ELSE best_score' = w.best_score /\ best' = w.best
    /\ walk_i' = walk_i + 1
    /\ UNCHANGED <<pcH, m_Extremities, offset>>
    /\ UNCHANGED <<rvars, svars, lvars, pvars, dvars>>

\* the walk's loop ends and detect goes on to the next contour
WalkEnd ==
    /\ pcH = "walk"
    /\ walk_i = Len(m_Extremities)
    /\ pcH' = "done"
    /\ UNCHANGED <<m_Extremities, offset, walk_i, walk_last, best, best_score,
                   walk_candidates>>
    /\ UNCHANGED <<rvars, svars, lvars, pvars, dvars>>

HullNext ==
    \/ Focus
    \/ UpdateRegion
    \/ SkipContour
    \/ HullFound
    \/ WalkStep
    \/ WalkEnd

-----------------------------------------------------------------------------
(* ViewCalibrator::find_photometric_model: filling m_ColourMap               *)

\* constexpr auto CMAP_SIZE = 8
CMAP_SIZE == 8

\* for(int k = 0; k < 2; k++)
PatternCount == 2

\* cv::Mat pattern(16, 16, CV_8UC3)
PatternRows == 16

PatternCols == 16

\* std::array<cv::Vec3f, 8 * 8 * 8> m_ColourMap
ColourMapSize == 8 * 8 * 8

\* const size_t xyz_to_3d_index(x, y, z, size)
xyz_to_3d_index(x, y, z, size) == (z * size + y) * size + x

\* the grid colour <<x, y, z>> the pattern shows for a map index
GridColour(map_index) ==
    <<map_index % CMAP_SIZE,
      (map_index \div CMAP_SIZE) % CMAP_SIZE,
      map_index \div (CMAP_SIZE * CMAP_SIZE)>>

\* pattern.at<cv::Vec3b>(i) = ... for i in 0..255, pattern number k
PatternOf(k) == [i \in 0..(256 - 1) |-> GridColour((k * 256) + i)]

\* (mutant of MapIndex: a row of the pattern is taken to be CMAP_SIZE long)
MapIndexGridRows(k, r, c) == (k * 256) + (r * CMAP_SIZE) + c

\* const int map_index = (k * 256) + (r * pattern.rows) + c
MapIndex(k, r, c) == (k * 256) + (r * PatternRows) + c

LutInit ==
    /\ pcL = "idle"
    /\ lut_k = 0
    /\ lut_r = 0
    /\ lut_c = 0
    /\ pattern = <<>>
    /\ m_ColourMap = [m \in 0..(ColourMapSize - 1) |-> <<>>]
    /\ slot_writes = [m \in 0..(ColourMapSize - 1) |-> 0]

\* the loop over k is entered, or entered again
NextPattern ==
    /\ pcL \in {"idle", "next"}
    /\ IF lut_k < PatternCount
       THEN pcL' = "pattern"
       ELSE pcL' = "done"
    /\ UNCHANGED <<lut_k, lut_r, lut_c, pattern, m_ColourMap, slot_writes>>
    /\ UNCHANGED <<rvars, svars, hvars, pvars, dvars>>

\* the pattern is filled, shown, captured and corrected
FillPattern ==
    /\ pcL = "pattern"
    /\ pattern' = PatternOf(lut_k)
    /\ lut_r' = 0
    /\ lut_c' = 0
    /\ pcL' = "fill"
    /\ UNCHANGED <<lut_k, m_ColourMap, slot_writes>>
    /\ UNCHANGED <<rvars, svars, hvars, pvars, dvars>>

\* One iteration of the loops over r and c: the mean over the roi of the
\* cell at row r, column c, which shows the pattern's pixel (r, c), linear
\* index r * pattern.cols + c, is written to m_ColourMap[map_index].
FillSlot ==
    /\ pcL = "fill"
    /\ LET measured == pattern[(lut_r * PatternCols) + lut_c]
           map_index == MapIndex(lut_k, lut_r, lut_c)
       IN  /\ m_ColourMap' = [m_ColourMap EXCEPT ![map_index] = measured]
           /\ slot_writes' = [slot_writes EXCEPT ![map_index] = @ + 1]
    /\ IF lut_c + 1 < PatternCols
       THEN /\ lut_c' = lut_c + 1
            /\ UNCHANGED <<lut_r, lut_k, pcL>>
       ELSE IF lut_r + 1 < PatternRows
            THEN /\ lut_c' = 0
                 /\ lut_r' = lut_r + 1
                 /\ UNCHANGED <<lut_k, pcL>>
            ELSE /\ lut_k' = lut_k + 1
                 /\ pcL' = "next"
                 /\ UNCHANGED <<lut_r, lut_c>>
    /\ UNCHANGED pattern
    /\ UNCHANGED <<rvars, svars, hvars, pvars, dvars>>

LutNext ==
    \/ NextPattern
    \/ FillPattern
    \/ FillSlot

-----------------------------------------------------------------------------
(* The process: main and MaskGenerator's prediction thread, start to exit    *)

\* what find_touch_action can return for a frame: nothing, a hover, a touch
FrameActions ==
    {<<>>, <<[point |-> TipP, touch |-> FALSE]>>,
           <<[point |-> TipP, touch |-> TRUE]>>}

\* (mutant of JoinReturns: join returns while the thread still runs)
JoinReturnsAtOnce(thread) == thread # "none"

\* m_PredictionThread.join() returns once predictor_process has returned
JoinReturns(thread) == thread = "ended"

ProcessInit ==
    /\ pcX = "webcam"
    /\ pcT = "none"
    /\ exit_code = <<>>
    /\ webcam_opened = "unknown"
    /\ capture_opened = "unknown"
    /\ runflag = FALSE
    /\ frames = 0
    /\ segments = 0
    /\ moves = 0
    /\ the_mouse = [left |-> FALSE, right |-> FALSE, sent |-> <<>>]
    /\ iterations = 0

\* the process has not exited
Running == exit_code = <<>>

\* main: Webcam::TryCreate and return -1 when it gives nothing
TryCreate ==
    /\ Running
    /\ pcX = "webcam"
    /\ \E opened \in BOOLEAN :
         IF opened
         THEN /\ webcam_opened' = "yes"
              /\ pcX' = "calibrate"
              /\ UNCHANGED exit_code
         ELSE /\ webcam_opened' = "no"
              /\ pcX' = "exited"
              /\ exit_code' = <<-1>>
    /\ UNCHANGED <<pcT, capture_opened, runflag, frames, segments, moves,
                   the_mouse, iterations>>
    /\ UNCHANGED <<rvars, svars, hvars, lvars, dvars>>

\* main: calibrator.calibrate returned; the systems are constructed
Calibrated ==
    /\ Running
    /\ pcX = "calibrate"
    /\ pcX' = "start"
    /\ UNCHANGED <<pcT, exit_code, webcam_opened, capture_opened, runflag,
                   frames, segments, moves, the_mouse, iterations>>
    /\ UNCHANGED <<rvars, svars, hvars, lvars, dvars>>

\* MaskGenerator::start: m_Runflag = true and the thread is started
StartGenerator ==
    /\ Running
    /\ pcX = "start"
    /\ runflag' = TRUE
    /\ pcT' = "open"
    /\ pcX' = "loop"
    /\ UNCHANGED <<exit_code, webcam_opened, capture_opened, frames, segments,
                   moves, the_mouse, iterations>>
    /\ UNCHANGED <<rvars, svars, hvars, lvars, dvars>>

\* main: while(webcam->next_frame(raw_frame)), a frame or the stream's end
CameraFrame ==
    /\ Running
    /\ pcX = "loop"
    /\ \/ /\ frames < MaxStreamFrames
          /\ frames' = frames + 1
          /\ pcX' = "segment"
       \/ /\ pcX' = "stop"
          /\ UNCHANGED frames
    /\ UNCHANGED <<pcT, exit_code, webcam_opened, capture_opened, runflag,
                   segments, moves, the_mouse, iterations>>
    /\ UNCHANGED <<rvars, svars, hvars, lvars, dvars>>

\* main: calibrator.correct and mask_generator.segment
SegmentFrame ==
    /\ Running
    /\ pcX = "segment"
    /\ runflag
    /\ segments' = segments + 1
    /\ pcX' = "act"
    /\ UNCHANGED <<pcT, exit_code, webcam_opened, capture_opened, runflag,
                   frames, moves, the_mouse, iterations>>
    /\ UNCHANGED <<rvars, svars, hvars, lvars, dvars>>

\* main: detect, find_touch_action and the calls on the mouse
ActOnFrame ==
    /\ Running
    /\ pcX = "act"
    /\ \E result \in FrameActions :
         /\ the_mouse' = MouseAfter(result, the_mouse)
         /\ moves' = IF result # <<>> THEN moves + 1 ELSE moves
    /\ pcX' = "loop"
    /\ UNCHANGED <<pcT, exit_code, webcam_opened, capture_opened, runflag,
                   frames, segments, iterations>>
    /\ UNCHANGED <<rvars, svars, hvars, lvars, dvars>>

\* MaskGenerator::stop: m_Runflag = false
StopGenerator ==
    /\ Running
    /\ pcX = "stop"
    /\ runflag' = FALSE
    /\ pcX' = "join"
    /\ UNCHANGED <<pcT, exit_code, webcam_opened, capture_opened, frames,
                   segments, moves, the_mouse, iterations>>
    /\ UNCHANGED <<rvars, svars, hvars, lvars, dvars>>

\* MaskGenerator::stop: m_PredictionThread.join(); main then runs off its
\* end, which exits the process with 0
JoinAndReturn ==
    /\ Running
    /\ pcX = "join"
    /\ JoinReturns(pcT)
    /\ pcX' = "exited"
    /\ exit_code' = <<0>>
    /\ UNCHANGED <<pcT, webcam_opened, capture_opened, runflag, frames,
                   segments, moves, the_mouse, iterations>>
    /\ UNCHANGED <<rvars, svars, hvars, lvars, dvars>>

\* predictor_process: sv::ScreenCapture::Open and exit(-1) when it gives
\* nothing, which ends the process wherever main is
OpenScreenCapture ==
    /\ Running
    /\ pcT = "open"
    /\ \E opened \in BOOLEAN :
         IF opened
         THEN /\ capture_opened' = "yes"
              /\ pcT' = "run"
              /\ UNCHANGED <<pcX, exit_code>>
         ELSE /\ capture_opened' = "no"
              /\ pcT' = "exited"
              /\ pcX' = "exited"
              /\ exit_code' = <<-1>>
    /\ UNCHANGED <<webcam_opened, runflag, frames, segments, moves, the_mouse,
                   iterations>>
    /\ UNCHANGED <<rvars, svars, hvars, lvars, dvars>>

\* predictor_process: the head of while(m_Runflag), one load of the flag.
\* A set flag lets the thread into an iteration, a cleared one ends it.
PredictorLoop ==
    /\ Running
    /\ pcT = "run"
    /\ \/ /\ ~runflag
          /\ pcT' = "ended"
       \/ /\ runflag
          /\ iterations < MaxIterations
          /\ pcT' = "iterate"
    /\ UNCHANGED <<pcX, exit_code, webcam_opened, capture_opened, runflag,
                   frames, segments, moves, the_mouse, iterations>>
    /\ UNCHANGED <<rvars, svars, hvars, lvars, dvars>>

\* predictor_process: the body of the loop, from screen_capture->read to
\* the release of m_PredictionMutex.  The flag is not looked at in here:
\* an iteration entered before stop() cleared it runs to its end.
PredictorIteration ==
    /\ Running
    /\ pcT = "iterate"
    /\ iterations' = iterations + 1
    /\ pcT' = "run"
    /\ UNCHANGED <<pcX, exit_code, webcam_opened, capture_opened, runflag,
                   frames, segments, moves, the_mouse>>
    /\ UNCHANGED <<rvars, svars, hvars, lvars, dvars>>

ProcessNext ==
    \/ TryCreate
    \/ Calibrated
    \/ StartGenerator
    \/ CameraFrame
    \/ SegmentFrame
    \/ ActOnFrame
    \/ StopGenerator
    \/ JoinAndReturn
    \/ OpenScreenCapture
    \/ PredictorLoop
    \/ PredictorIteration

-----------------------------------------------------------------------------
(* ViewCalibrator::predict: the cell of the colour map a pixel falls into    *)

\* CV_Assert(src.type() == CV_8UC3): a channel is an 8-bit value
ChannelMax == 255

ChannelValues == 0..ChannelMax

\* The pixels of the model: one channel takes every 8-bit value while the
\* other two are at an end of the range.  x, y and z are each computed from
\* one channel alone.
Colours ==
    UNION {{[ch \in 1..3 |-> IF ch = free THEN v ELSE ends[ch]] :
               v \in ChannelValues, ends \in [1..3 -> {0, ChannelMax}]} :
           free \in 1..3}

\* n * 2^e doubled until it has FloatMantissaBits bits: <<n * 2^e, e>>
RECURSIVE FloatNormal(_, _)
FloatNormal(n, e) ==
    IF n >= 2 ^ (FloatMantissaBits - 1) THEN <<n, e>>
    ELSE FloatNormal(2 * n, e + 1)

\* static_cast<float>(n) for an integer 0 <= n < 2^24, which is exact
FloatOf(n) ==
    IF n = 0 THEN [kind |-> "zero", m |-> 0, e |-> 0]
    ELSE LET normal == FloatNormal(n, 0)
         IN  [kind |-> "num", m |-> normal[1], e |-> normal[2]]

\* Binary long division of r by d, for 0 < r < 2 * d: one quotient bit a
\* step until the quotient has FloatMantissaBits + 1 bits.  The result is
\* <<quotient, remainder, steps>>; the remainder stays below 4 * d.
RECURSIVE FloatLongDiv(_, _, _, _)
FloatLongDiv(r, d, q, steps) ==
    IF q >= 2 ^ FloatMantissaBits THEN <<q, r, steps>>
    ELSE LET bit == IF r >= d THEN 1 ELSE 0
         IN  FloatLongDiv(2 * (r - bit * d), d, 2 * q + bit, steps + 1)

\* a / b on two binary32 numbers: the IEEE quotient, rounded to nearest, ties
\* to even, from the mantissa bits, a guard bit and the remainder
FloatQuotient(a, b) ==
    IF a.kind = "zero" THEN a
    ELSE LET div == FloatLongDiv(a.m, b.m, 0, 0)
             q == div[1] \div 2
             guard == div[1] % 2
             up == guard = 1 /\ (div[2] > 0 \/ q % 2 = 1)
             m == IF up THEN q + 1 ELSE q
             e == (div[3] - 2) + (a.e - b.e)
         IN  IF m = 2 ^ FloatMantissaBits
             THEN [kind |-> "num", m |-> 2 ^ (FloatMantissaBits - 1),
                   e |-> e - 1]
             ELSE [kind |-> "num", m |-> m, e |-> e]

\* the bits the product c * m has above FloatMantissaBits, given its upper
\* part hi = (c * m) \div 2^12
RECURSIVE FloatExcess(_, _)
FloatExcess(hi, s) ==
    IF hi < 2 ^ (12 + s) THEN s ELSE FloatExcess(hi, s + 1)

\* static_cast<float>(c) * f for an 8-bit c: the IEEE product, rounded to
\* nearest, ties to even.  The mantissa is multiplied in two halves of 12
\* bits, which keeps every intermediate value below 2^31.
FloatTimes(c, f) ==
    IF c = 0 \/ f.kind = "zero" THEN [kind |-> "zero", m |-> 0, e |-> 0]
    ELSE LET lo == c * (f.m % 4096)
             hi == c * (f.m \div 4096) + (lo \div 4096)
             low == lo % 4096
             s == FloatExcess(hi, 0)
             q == hi * 2 ^ (12 - s) + (low \div 2 ^ s)
             rem == low % 2 ^ s
             up == 2 * rem > 2 ^ s \/ (s > 0 /\ 2 * rem = 2 ^ s /\ q % 2 = 1)
             m == IF up THEN q + 1 ELSE q
         IN  IF m = 2 ^ FloatMantissaBits
             THEN [kind |-> "num", m |-> 2 ^ (FloatMantissaBits - 1),
                   e |-> f.e - s - 1]
             ELSE [kind |-> "num", m |-> m, e |-> f.e - s]

\* static_cast<int>(f) for 0 <= f < 2^24: the fraction is cut off
FloatToInt(f) ==
    IF f.kind = "zero" \/ f.e > FloatMantissaBits THEN 0
    ELSE f.m \div 2 ^ f.e

\* constexpr auto CMAP_STEP = 1.0f / (CMAP_SIZE - 1.0f)
CMAP_STEP == FloatQuotient(FloatOf(1), FloatOf(CMAP_SIZE - 1))

\* cv::Vec3f(colour) / 255.0f: OpenCV divides a Vec by a float by multiplying
\* each element with ialpha = 1.f / alpha
NormCol(c) == FloatTimes(c, FloatQuotient(FloatOf(1), FloatOf(255)))

\* (mutant of CellIndex: the quotient c * 7 / 255 without rounding)
CellIndexExact(c) == (c * (CMAP_SIZE - 1)) \div ChannelMax

\* predict: static_cast<int>(norm_col[ch] / CMAP_STEP)
CellIndex(c) == FloatToInt(FloatQuotient(NormCol(c), CMAP_STEP))

\* the corners of the sub-cube in the order tlerp is given them
CubeCorners ==
    <<<<0, 0, 0>>, <<0, 1, 0>>, <<1, 1, 0>>, <<1, 0, 0>>,
      <<0, 0, 1>>, <<0, 1, 1>>, <<1, 1, 1>>, <<1, 0, 1>>>>

\* the indices of m_ColourMap that predict reads for the cell (x, y, z)
LutReads(xyz) ==
    [n \in 1..8 |->
        xyz_to_3d_index(xyz[1] + CubeCorners[n][1],
                        xyz[2] + CubeCorners[n][2],
                        xyz[3] + CubeCorners[n][3], CMAP_SIZE)]

PredictInit ==
    /\ pcD = "idle"
    /\ pixel_i = 0
    /\ colour = <<>>
    /\ cell = <<>>
    /\ lut_reads = <<>>

\* predict: the type check and dst.create
PredictBegin ==
    /\ pcD = "idle"
    /\ pixel_i' = 1
    /\ pcD' = "pixel"
    /\ UNCHANGED <<colour, cell, lut_reads>>
    /\ UNCHANGED <<rvars, svars, hvars, lvars, pvars>>

\* src.forEach calls the lambda with the next pixel, whatever its colour
NextPixel ==
    /\ pcD = "pixel"
    /\ pixel_i <= PixelCount
    /\ colour' \in Colours
    /\ pcD' = "locate"
    /\ UNCHANGED <<pixel_i, cell, lut_reads>>
    /\ UNCHANGED <<rvars, svars, hvars, lvars, pvars>>

\* the lambda: norm_col and the sub-cube x, y, z
Locate ==
    /\ pcD = "locate"
    /\ cell' = [ch \in 1..3 |-> CellIndex(colour[ch])]
    /\ pcD' = "read"
    /\ UNCHANGED <<pixel_i, colour, lut_reads>>
    /\ UNCHANGED <<rvars, svars, hvars, lvars, pvars>>

\* the lambda: the eight reads of m_ColourMap for tlerp
ReadMap ==
    /\ pcD = "read"
    /\ lut_reads' = LutReads(cell)
    /\ pcD' = "return"
    /\ UNCHANGED <<pixel_i, colour, cell>>
    /\ UNCHANGED <<rvars, svars, hvars, lvars, pvars>>

\* the lambda returns, which ends its locals, and forEach moves on
LambdaReturn ==
    /\ pcD = "return"
    /\ pixel_i' = pixel_i + 1
    /\ colour' = <<>>
    /\ cell' = <<>>
    /\ lut_reads' = <<>>
    /\ pcD' = "pixel"
    /\ UNCHANGED <<rvars, svars, hvars, lvars, pvars>>

\* forEach has visited every pixel and predict returns
PredictEnd ==
    /\ pcD = "pixel"
    /\ pixel_i > PixelCount
    /\ pcD' = "done"
    /\ UNCHANGED <<pixel_i, colour, cell, lut_reads>>
    /\ UNCHANGED <<rvars, svars, hvars, lvars, pvars>>

PredictNext ==
    \/ PredictBegin
    \/ NextPixel
    \/ Locate
    \/ ReadMap
    \/ LambdaReturn
    \/ PredictEnd

-----------------------------------------------------------------------------
Init ==
    /\ QueueInit /\ TrackerInit /\ CalibInit /\ CaptureInit
    /\ ScreenInit /\ HullInit /\ LutInit /\ ProcessInit /\ PredictInit

\* the two threads around the delay queue
SpecQueue == Init /\ [][QueueNext]_vars

\* the same under fair scheduling: the prediction thread is not held up for
\* ever (the screen read returns at its timeout), and join returns once the
\* thread has ended
SpecQueueFair == SpecQueue /\ WF_vars(PredictorNext) /\ WF_vars(StopJoin)

\* the main thread's loop: detect, find_touch_action, tracker focus and mouse
SpecMain == Init /\ [][MainNext]_vars

\* the same loop over few frames with more fingers close to one another
SpecMatch == Init /\ [][MatchNext]_vars

\* find_touch_action with every pair of roi counts
SpecTouch == Init /\ [][TouchNext]_vars

\* the Mouse under any sequence of hold_left, hold_right and release_hold
SpecMouse == Init /\ [][MouseNext]_vars

\* calibrate with its exposure lock, every camera and detection outcome
SpecCalib == Init /\ [][CalibNext]_vars

\* the same, where a step that can be taken is eventually taken: the camera
\* delivers its frames and the user presses a key
SpecCalibFair == SpecCalib /\ WF_vars(CalibNext)

\* one capture_image call
SpecCapture == Init /\ [][CaptureNext]_vars

\* one detect_screen call, from the simplified contour on
SpecScreen == Init /\ [][ScreenNext]_vars

\* the hull walk of one contour in a detect call
SpecHull == Init /\ [][HullNext]_vars

\* find_photometric_model's loop over the two colour patterns
SpecLut == Init /\ [][LutNext]_vars

\* the process from the start of main to its exit, with the prediction thread
SpecProcess == Init /\ [][ProcessNext]_vars

\* predict over the pixels of one image
SpecPredict == Init /\ [][PredictNext]_vars

-----------------------------------------------------------------------------
(* Properties of the delay queue, checked under SpecQueue                    *)

\* C1: a read_prediction that took the lock after n >= prediction_delay
\* completed queue writes returns the frame of write number
\* n - prediction_delay + 1, the oldest of the frames the queue holds.
C1_ReadReturnsOldest ==
    (pcC = "rp_unlock" /\ readAt >= prediction_delay) =>
        /\ readWrite = readAt - prediction_delay + 1
        /\ m_Background = writeLog[readAt - prediction_delay + 1]

\* C1 witness: a read taken after the ring has wrapped, with a frame of a real
\* screen capture returned while newer frames are held.
C1_Witness ==
    /\ pcC = "rp_unlock"
    /\ readAt > prediction_delay
    /\ readWrite = readAt - prediction_delay + 1
    /\ m_Background > ZeroFrame
    /\ m_Background # writeLog[readAt]

\* C2: every producer iteration writes one slot and advances write_index by
\* one modulo prediction_delay, and an iteration whose screen read timed out
\* writes the last prediction computed from a real screen frame, the first
\* iterations after start included.
C2_TimeoutReusesLastPrediction ==
    lastIter.wrote > 0 =>
        /\ lastIter.index_after = (lastIter.index_before + 1) % prediction_delay
        /\ ~lastIter.new_frame =>
              /\ lastIter.seen > 0
              /\ lastIter.frame = PredictionOf(lastIter.seen)

\* C3: the producer is never inside its copy-and-advance section while the
\* consumer is inside its slot copy, and each is inside its section only
\* while it holds the prediction mutex.
C3_MutualExclusion ==
    /\ ~(pcP \in {"copy", "advance", "raw"} /\ pcC \in {"rp_copy", "rp_unlock"})
    /\ pcP \in {"copy", "advance", "raw"} => mutexOwner = "producer"
    /\ pcC \in {"rp_copy", "rp_unlock"} => mutexOwner = "consumer"

\* C3 witness: both threads contend: the consumer is copying a slot while the
\* producer waits for the mutex with a frame to write.
C3_Witness ==
    /\ pcC = "rp_copy"
    /\ pcP = "lock"
    /\ mutexOwner = "consumer"
    /\ Len(writeLog) > 0

\* after stop() has cleared the run flag the producer completes at most one
\* more queue write, and the join returns only when the thread has left its
\* loop for good
C4_AtMostOneWriteAfterClear ==
    /\ writesAfterClear <= 1
    /\ pcC = "joined" => pcP = "done"

\* C4: once stop() has cleared the run flag, the prediction thread leaves its
\* loop and the join returns, or the thread had not yet opened the screen
\* capture and its failure to do so ends the process; the producer completes
\* at most one more queue write after the clear and none after the join has
\* returned.
C4_StopEndsProducer ==
    /\ [](C4_AtMostOneWriteAfterClear)
    /\ [][pcC = "joined" => writeLog' = writeLog]_vars
    /\ (pcC = "join") ~> (pcC \in {"joined", "exit"})

\* The join has returned after the producer, caught by the clear inside an
\* iteration, completed that iteration's write.
C4_Witness ==
    /\ pcC = "joined"
    /\ pcP = "done"
    /\ writesAfterClear = 1

-----------------------------------------------------------------------------
(* The finger tracker and the touch decider                                  *)

InRange(p, q) == DistSqr(p, q) < MAX_TRACKING_RANGE * MAX_TRACKING_RANGE

\* the fingertips of a list that carry an id
WithId(list, id) == {k \in 1..Len(list) : list[k].id = id}

\* C5 (as stated): a candidate that continues a finger emitted with id X by
\* the previous detect call and lies less than 75 px from X's previous tip is
\* emitted with id X, whatever the other tracked fingers and candidates are.
C5_ContinuingCandidateKeepsId ==
    (pcM = "decide" /\ continues.id >= 0
        /\ InRange(continues.from, continues.point)) =>
    \E k \in 1..Len(fingertips) :
        /\ fingertips[k].point = continues.point
        /\ fingertips[k].id = continues.id

\* C5 (amended): in the matching stage of a detect call, a candidate that is
\* the only candidate less than 75 px from a tracked finger's tip, and that
\* no other tracked finger is less than 75 px from, is emitted with that
\* finger's id and with its age plus one.
C5_LoneCandidateKeepsId ==
    [][(pcM = "track" /\ pcM' = "decide") =>
        \A m \in 1..Len(m_TrackingMemory), c \in 1..Len(m_Candidates) :
            LET finger == m_TrackingMemory[m].finger
                tip == m_Candidates[c].first
            IN  ( /\ InRange(finger.point, tip)
                  /\ \A d \in 1..Len(m_Candidates) :
                        d # c => ~InRange(finger.point, m_Candidates[d].first)
                  /\ \A n \in 1..Len(m_TrackingMemory) :
                        n # m => ~InRange(m_TrackingMemory[n].finger.point, tip) )
                => \E k \in 1..Len(fingertips') :
                     /\ fingertips'[k].point = tip
                     /\ fingertips'[k].id = finger.id
                     /\ fingertips'[k].age = finger.age + 1]_vars

\* A detect call has returned in which the marked candidate moved less than
\* 75 px from the tip of a finger of the previous call and kept its id, while
\* it was the only candidate that close to the finger; every other fingertip
\* of the call is new, and another tracked finger, 75 px or more away from
\* the candidate, went unmatched.
C5_Witness ==
    /\ pcM = "decide"
    /\ continues.id >= 0
    /\ continues.point # continues.from
    /\ InRange(continues.from, continues.point)
    /\ \E k \in 1..Len(fingertips) :
         /\ fingertips[k].point = continues.point
         /\ fingertips[k].id = continues.id
         /\ \A j \in 1..Len(fingertips) :
              j # k => /\ fingertips[j].age = 1
                       /\ ~InRange(continues.from, fingertips[j].point)
    /\ \E n \in 1..Len(m_TrackingMemory) :
         m_TrackingMemory[n].life < MAX_TRACKING_LIFE
    /\ \A n \in 1..Len(m_TrackingMemory) :
         m_TrackingMemory[n].life < MAX_TRACKING_LIFE
            => ~InRange(m_TrackingMemory[n].finger.point, continues.point)

\* C6: every fingertip created as new receives an id strictly greater than
\* every id issued before it, so no id is issued twice; the ids issued are
\* all below the counter and every fingertip and memory entry carries an
\* issued id.
C6_IdsStrictlyIncrease ==
    /\ \A i, j \in 1..Len(issued) : i < j => issued[i] < issued[j]
    /\ \A i \in 1..Len(issued) : issued[i] < m_NextID
    /\ \A k \in 1..Len(fingertips) :
         /\ \E i \in 1..Len(issued) : issued[i] = fingertips[k].id
         /\ fingertips[k].age = 1 =>
              \A m \in 1..Len(m_TrackingMemory) :
                  m_TrackingMemory[m].finger.id = fingertips[k].id
                      => m_TrackingMemory[m].finger = fingertips[k]

\* Two detect calls have issued three ids, the last of them to the new
\* fingertip the second call emitted last, and the fingers that got the
\* first two are still in memory.
C6_Witness ==
    /\ pcM = "decide"
    /\ calls = 2
    /\ Len(issued) = 3
    /\ Len(fingertips) >= 2
    /\ fingertips[Len(fingertips)].age = 1
    /\ fingertips[Len(fingertips)].id = issued[3]
    /\ \A i \in 1..2 : \E m \in 1..Len(m_TrackingMemory) :
         m_TrackingMemory[m].finger.id = issued[i]

\* after every detect call: lives in 1..10, ids in memory distinct, every
\* emitted fingertip in memory with life 10
C7_State ==
    /\ \A m \in 1..Len(m_TrackingMemory) :
         /\ m_TrackingMemory[m].life \in 1..MAX_TRACKING_LIFE
         /\ \A n \in 1..Len(m_TrackingMemory) :
              m_TrackingMemory[m].finger.id = m_TrackingMemory[n].finger.id
                  => m = n
    /\ \A k \in 1..Len(fingertips) :
         \E m \in 1..Len(m_TrackingMemory) :
             /\ m_TrackingMemory[m].finger = fingertips[k]
             /\ m_TrackingMemory[m].life = MAX_TRACKING_LIFE

\* one detect call: an entry that is not matched loses exactly 1 life and is
\* removed when that leaves it none; a matched one keeps its id
C7_Step ==
    (pcM = "track" /\ pcM' = "decide") =>
    \A m \in 1..Len(m_TrackingMemory) :
        LET entry == m_TrackingMemory[m]
            after == {n \in 1..Len(m_TrackingMemory') :
                         m_TrackingMemory'[n].finger.id = entry.finger.id}
        IN  IF WithId(fingertips', entry.finger.id) = {}
            THEN IF entry.life > 1
                 THEN \E n \in after :
                        m_TrackingMemory'[n] =
                            [finger |-> entry.finger, life |-> entry.life - 1]
                 ELSE after = {}
            ELSE \E n \in after :
                   /\ m_TrackingMemory'[n].life = MAX_TRACKING_LIFE
                   /\ m_TrackingMemory'[n].finger.age = entry.finger.age + 1

\* C7: every fingertip a detect call emits is in tracking memory with life 10
\* when the call returns; an entry that is not matched loses exactly 1 life
\* per call and is removed in the call where its life reaches 0, so all
\* lives are in 1..10 after every call and an entry unmatched for 10
\* consecutive calls is gone; until then it can be matched and keeps its id.
C7_LifeCycle == [](C7_State) /\ [][C7_Step]_vars

\* The finger with id 0 went unmatched for 10 calls and is gone, in the call
\* where the finger with id 1, unmatched for 9 calls, was left with life 1.
C7_Witness ==
    /\ pcM = "decide"
    /\ m_NextID = 2
    /\ fingertips = <<>>
    /\ Len(m_TrackingMemory) = 1
    /\ m_TrackingMemory[1].finger.id = 1
    /\ m_TrackingMemory[1].life = 1

\* C8 (as stated): a fingertip is selected only if it carries the id of the
\* fingertip selected before or has age >= 5; so the first fingertip the
\* decider ever selects has age >= 5, and no action results from a younger
\* one while none has been selected.
C8_FirstSelectedIsOldEnough ==
    selections = "first" => last_fingertip.age >= MIN_FINGER_AGE

\* C9: in find_touch_action, a fingertip of the list that carries the
\* remembered id is the one selected, wherever it is in the list and however
\* old the others are; with no such fingertip the selected one has the
\* greatest age among those with age >= 5, and none is selected when there
\* is none of that age.
C9_IdMatchThenOldest ==
    [][(pcM = "decide" /\ pcM' = "act") =>
        LET same == WithId(fingertips, last_fingertip.id)
            old == {k \in 1..Len(fingertips) :
                       fingertips[k].age >= MIN_FINGER_AGE}
        IN  IF same # {}
            THEN \E k \in same : chosen_fingertip' = <<fingertips[k]>>
            ELSE IF old # {}
                 THEN \E k \in old :
                        /\ chosen_fingertip' = <<fingertips[k]>>
                        /\ \A j \in old :
                             fingertips[j].age <= fingertips[k].age
                 ELSE chosen_fingertip' = <<>>]_vars

\* The selected fingertip is younger than 5, so it was selected for its id,
\* and an earlier fingertip of the list has age >= 5.
C9_Witness ==
    /\ pcM = "act"
    /\ chosen_fingertip # <<>>
    /\ chosen_fingertip[1].age < MIN_FINGER_AGE
    /\ Len(fingertips) = 2
    /\ fingertips[2] = chosen_fingertip[1]
    /\ fingertips[1].age >= MIN_FINGER_AGE

\* C10 (as stated): the remembered id is unchanged by a call of
\* find_touch_action that returns no action.
C10_NoActionKeepsRemembered ==
    [][(pcM = "decide" /\ pcM' = "act" /\ action' = <<>>) =>
        last_fingertip'.id = last_fingertip.id]_vars

\* C10 (amended): the remembered fingertip is the last selected one: a call
\* of find_touch_action that selects a fingertip remembers it, whether it
\* returns a touch, a hover or no action, and a call that selects none
\* leaves the remembered fingertip unchanged; an action is returned only for
\* the selected fingertip.
C10_RemembersLastSelected ==
    [][(pcM = "decide" /\ pcM' = "act") =>
        /\ chosen_fingertip' = <<>> =>
             (last_fingertip' = last_fingertip /\ action' = <<>>)
        /\ chosen_fingertip' # <<>> =>
             /\ last_fingertip' = chosen_fingertip'[1]
             /\ action' # <<>> => action'[1].point = chosen_fingertip'[1].point]_vars

\* A call selected a fingertip of age >= 5 with an id other than the first,
\* returned no action and remembers the fingertip.
C10_Witness ==
    /\ pcM = "act"
    /\ chosen_fingertip # <<>>
    /\ chosen_fingertip[1].age >= MIN_FINGER_AGE
    /\ chosen_fingertip[1].id > 0
    /\ action = <<>>
    /\ last_fingertip = chosen_fingertip[1]

-----------------------------------------------------------------------------
(* The ratio test, the mouse and the focus countdown                         *)

\* C11: for the selected fingertip with shadow count s and foreground count
\* f in its roi, find_touch_action returns a touch iff f > 0 and s/f <= 0.20,
\* a hover iff f > 0 and 0.20 < s/f <= 0.30, and no action otherwise, f = 0
\* included; the point returned is the fingertip's.
C11_DecisionByRatio ==
    (pcM = "act" /\ chosen_fingertip # <<>>) =>
    LET touch == foreground > 0 /\ 5 * shadow <= foreground
        hover == foreground > 0 /\ ~touch /\ 10 * shadow <= 3 * foreground
    IN  /\ touch => action = <<[point |-> chosen_fingertip[1].point,
                                touch |-> TRUE]>>
        /\ hover => action = <<[point |-> chosen_fingertip[1].point,
                                touch |-> FALSE]>>
        /\ (~touch /\ ~hover) => action = <<>>

\* A fingertip was selected, its ratio is exactly 0.30 and the call returned
\* a hover.
C11_Witness ==
    /\ pcM = "act"
    /\ chosen_fingertip # <<>>
    /\ shadow = 3
    /\ foreground = 10
    /\ action = <<[point |-> chosen_fingertip[1].point, touch |-> FALSE]>>

\* C12 (as stated): at the end of a main-loop frame whose decision is hover
\* the left button is not held, whatever the frames before it decided.
C12_HoverLeavesLeftUp ==
    (pcM = "detect" /\ action # <<>> /\ ~action[1].touch) => ~m_LeftClickDown

\* C12 (amended): a frame whose decision is hover sends no button event and
\* calls neither hold_left nor release_hold, so at its end each button is
\* held iff it was held at its start.
C12_HoverKeepsButtons ==
    [][(pcM = "act" /\ action # <<>> /\ ~action[1].touch) =>
        /\ m_LeftClickDown' = m_LeftClickDown
        /\ m_RightClickDown' = m_RightClickDown
        /\ sent' = <<>>
        /\ \A k \in 1..Len(frame_calls') :
             frame_calls'[k].op \notin {"hold_left", "release_hold"}]_vars

\* A hover frame has ended with the left button still held from a touch of
\* an earlier frame.
C12_Witness ==
    /\ pcM = "detect"
    /\ action # <<>>
    /\ ~action[1].touch
    /\ m_LeftClickDown
    /\ sent = <<>>

\* the calls of an operation among those of the frame
CallsOf(name) == {k \in 1..Len(frame_calls) : frame_calls[k].op = name}

\* C13: at the end of a main-loop frame in which find_touch_action returned
\* a point, exactly one focus(point, 256x256) and one move(point, true) were
\* issued, hold_left was issued iff the decision is touch and release_hold
\* was not; at the end of a frame with no action release_hold was called,
\* focus, move and hold_left were not, and no button is held.
C13_FrameCalls ==
    (pcM = "detect" /\ calls > 0) =>
    IF action # <<>>
    THEN /\ \E k \in 1..Len(frame_calls) :
              /\ CallsOf("focus") = {k}
              /\ frame_calls[k].point = action[1].point
              /\ frame_calls[k].size = 256
         /\ \E k \in 1..Len(frame_calls) :
              /\ CallsOf("move") = {k}
              /\ frame_calls[k].point = action[1].point
              /\ frame_calls[k].smoothing
         /\ Cardinality(CallsOf("hold_left")) =
                (IF action[1].touch THEN 1 ELSE 0)
         /\ CallsOf("release_hold") = {}
         /\ action[1].touch => m_LeftClickDown
         /\ m_TrackingResetTimer = FOCUS_RESET_TIME
    ELSE /\ Cardinality(CallsOf("release_hold")) = 1
         /\ Len(frame_calls) = 1
         /\ ~m_LeftClickDown
         /\ ~m_RightClickDown

\* A frame with no action has ended in which release_hold let go of the left
\* button, held since a touch.
C13_Witness ==
    /\ pcM = "detect"
    /\ action = <<>>
    /\ frame_calls = <<[op |-> "release_hold"]>>
    /\ sent = <<"LEFTUP">>
    /\ ~m_LeftClickDown

\* the events of a kind among the first n sent
SentOf(events, kind) == {k \in 1..Len(events) : events[k] = kind}

\* C14: a call of release_hold sends exactly one release event for each
\* button recorded as held and none for a button that is not, and leaves
\* neither button recorded as held; so a release_hold right after a
\* release_hold sends no event.
C14_ReleaseHold ==
    [][(/\ Len(frame_calls') = Len(frame_calls) + 1
        /\ frame_calls'[Len(frame_calls')].op = "release_hold") =>
        /\ Len(sent') = Len(sent) + (IF m_LeftClickDown THEN 1 ELSE 0)
                                  + (IF m_RightClickDown THEN 1 ELSE 0)
        /\ \A k \in 1..Len(sent) : sent'[k] = sent[k]
        /\ Cardinality(SentOf(sent', "LEFTUP")) =
             Cardinality(SentOf(sent, "LEFTUP"))
                + (IF m_LeftClickDown THEN 1 ELSE 0)
        /\ Cardinality(SentOf(sent', "RIGHTUP")) =
             Cardinality(SentOf(sent, "RIGHTUP"))
                + (IF m_RightClickDown THEN 1 ELSE 0)
        /\ ~m_LeftClickDown'
        /\ ~m_RightClickDown'
        /\ (frame_calls # <<>>
              /\ frame_calls[Len(frame_calls)].op = "release_hold")
             => sent' = sent]_vars

\* Both buttons were pressed, a release_hold released both and a second
\* release_hold sent nothing.
C14_Witness ==
    /\ Len(frame_calls) = 4
    /\ frame_calls[3].op = "release_hold"
    /\ frame_calls[4].op = "release_hold"
    /\ Len(sent) = 4
    /\ SentOf(sent, "LEFTUP") # {}
    /\ SentOf(sent, "RIGHTUP") # {}
    /\ ~m_LeftClickDown
    /\ ~m_RightClickDown

\* C15: the detect calls after a focus call, with no focus call in between,
\* run on the focused rectangle up to the 9th and on the full frame from the
\* 10th on; with no focus call at all every detect call runs on the full
\* frame.  (last_focus.detects is 0 between the focus call and the next
\* detect call.)
C15_FocusCountdown ==
    calls > 0 =>
    IF last_focus = <<>> THEN m_TrackingRegion = FullRegion
    ELSE IF last_focus[1].detects < 10
         THEN /\ m_TrackingRegion = last_focus[1].region
              /\ m_TrackingRegion # FullRegion
         ELSE m_TrackingRegion = FullRegion

\* The 10th detect call after a focus call has reset the region.
C15_Witness ==
    /\ pcM = "track"
    /\ last_focus # <<>>
    /\ last_focus[1].detects = 10
    /\ m_TrackingRegion = FullRegion

\* the iteration of calibrate's loop that is running passed every detection
\* and the coverage test
C16_IterationPassed ==
    /\ \A n \in 1..4 : stages[n] = "ok"
    /\ m_ScreenContour.attempt = attempt
    /\ m_ScreenContour.area >= CoverageThreshold

C16_State ==
    /\ pcV \in {"photometric", "done"} => C16_IterationPassed
    /\ photometric = (IF pcV = "done" THEN 1 ELSE 0)

C16_Step ==
    /\ (pcV = "geometric" /\ \E n \in 1..4 : stages'[n] # "ok")
         => pcV' = "feedback"
    /\ (pcV = "coverage" /\ m_ScreenContour.area < CoverageThreshold)
         => pcV' = "feedback"
    /\ pcV' = "feedback" => photometric' = 0 /\ m_ReflectanceMap' = <<>>
    /\ pcV = "feedback"
         => /\ pcV' = "exposure"
            /\ attempt' = attempt + 1
            /\ photometric' = 0
    /\ pcV = "exposure" => pcV' = "probe"
    /\ pcV = "probe" => pcV' = "measure"
    /\ pcV = "measure" => pcV' \in {"probe", "colours"}
    /\ pcV = "colours" => pcV' = "geometric"
    /\ pcV' = "geometric" => pcV = "colours"

\* C16: calibrate is done only in a loop iteration in which the four
\* detections and the coverage check succeeded; an iteration in which one
\* of them fails ends at a feedback screen, computes no photometric model,
\* and after the key press a new iteration starts at the head of the loop
\* and takes its samples again before it detects anything.
C16_RetryLoop == [](C16_State) /\ [][C16_Step]_vars

\* calibrate is done in its third iteration; the one before failed the
\* coverage check.
C16_Witness ==
    /\ pcV = "done"
    /\ attempt = 3
    /\ feedback = "Please move the camera closer"
    /\ photometric = 1

\* C17: an iteration of calibrate in which the first detection finds a
\* screen whose area is below the coverage threshold ends at the feedback
\* "Please move the camera closer", whatever the later detections do.
C17_SmallScreenAsksCloser ==
    (/\ pcV = "feedback"
     /\ stages[1] = "ok"
     /\ screen_area < CoverageThreshold)
      => feedback = "Please move the camera closer"

\* C18: calibrate_exposure returns for every camera: each run of probes
\* is followed by the capture of the colour samples.
C18_ExposureLockTerminates == (pcV = "probe") ~> (pcV = "colours")

\* C19: a finished capture_image call has shown the image, slept, and taken
\* exactly 3 + capture_samples frames from the camera: 3 discarded and
\* capture_samples read.
C19_ConsumesThreePlusSamples ==
    pcK = "done" =>
      /\ shown
      /\ slept
      /\ grabs + reads = 3 + capture_samples

\* C20: after find_photometric_model every channel of every pixel of
\* m_ReflectanceMap is a number above zero.
C20_ReflectancePositive ==
    pcV = "done" =>
      \A p \in 1..Len(m_ReflectanceMap) : \A ch \in 1..3 :
         m_ReflectanceMap[p][ch].kind = "num"

\* C21: a contour detect_screen returns holds exactly the four refined
\* corners, each once.
C21_OrderedIsPermutation ==
    (pcS = "done" /\ detected = "ok") =>
      {ordered_corners[n] : n \in 1..4} = {corners[n] : n \in 1..4}

\* the hull points in the order the walk visits them
C22_Walk == Rotated(m_Extremities, offset % Len(m_Extremities))

\* position k of the walk starts a cluster
C22_Starts(k) ==
    \/ k = 1
    \/ DistSqr(C22_Walk[k].pt, C22_Walk[k - 1].pt) > NONMAX_PROXIMIITY

\* the cluster that starts at a ends at b
C22_Cluster(a, b) ==
    /\ a <= b
    /\ C22_Starts(a)
    /\ \A k \in (a + 1)..b : ~C22_Starts(k)
    /\ b = Len(C22_Walk) \/ C22_Starts(b + 1)

\* position k holds the first highest score of the cluster a..b
C22_BestOf(a, b, k) ==
    /\ k \in a..b
    /\ \A j \in a..b : C22_Walk[j].score <= C22_Walk[k].score
    /\ \A j \in a..(k - 1) : C22_Walk[j].score < C22_Walk[k].score

\* the positions whose points are to be emitted
C22_Expected ==
    {k \in 1..Len(C22_Walk) :
        /\ C22_Walk[k].score > ARC_MIN_SCORE
        /\ \E a \in 1..k, b \in k..Len(C22_Walk) :
             C22_Cluster(a, b) /\ C22_BestOf(a, b, k)}

\* C22: when the walk of a hull is over, each cluster with a score above
\* ARC_MIN_SCORE has put exactly one candidate on the list, its first
\* highest-scoring point, and the other clusters none.
C22_OnePerCluster ==
    pcH = "done" =>
      /\ Len(walk_candidates) = Cardinality(C22_Expected)
      /\ {walk_candidates[n] : n \in 1..Len(walk_candidates)} =
           {C22_Walk[k].pt : k \in C22_Expected}

\* C23: no slot of m_ColourMap is written twice, and when the loop over
\* the patterns is over every slot m in 0..511 was written once and holds
\* the measurement of the cell that showed grid colour
\* <<m % 8, (m \div 8) % 8, m \div 64>>, whose xyz_to_3d_index is m.
C23_EverySlotOnce ==
    /\ \A m \in 0..(ColourMapSize - 1) : slot_writes[m] <= 1
    /\ pcL = "done" =>
         \A m \in 0..(ColourMapSize - 1) :
            /\ slot_writes[m] = 1
            /\ m_ColourMap[m] = <<m % 8, (m \div 8) % 8, m \div 64>>
            /\ xyz_to_3d_index(m_ColourMap[m][1], m_ColourMap[m][2],
                               m_ColourMap[m][3], CMAP_SIZE) = m

\* Both patterns were measured and the last slot holds the colour (7, 7, 7).
C23_Witness ==
    /\ pcL = "done"
    /\ lut_k = 2
    /\ slot_writes[511] = 1
    /\ m_ColourMap[511] = <<7, 7, 7>>
    /\ m_ColourMap[256] = <<0, 0, 4>>

\* C24: the process exits with 0 only after the camera stream ended, the
\* flag was cleared and the prediction thread was joined, with the webcam
\* and the screen capture opened; it exits with a code other than 0 when
\* the webcam or the screen capture could not be opened.
C24_ExitCodes ==
    exit_code # <<>> =>
      /\ exit_code[1] = 0 =>
           /\ webcam_opened = "yes"
           /\ capture_opened = "yes"
           /\ ~runflag
           /\ pcT = "ended"
           /\ segments = frames
      /\ (webcam_opened = "no" \/ capture_opened = "no") => exit_code[1] # 0
      /\ exit_code[1] # 0 => (webcam_opened = "no" \/ capture_opened = "no")

\* The stream ended after its frames and the process exited with 0.
C24_Witness ==
    /\ exit_code = <<0>>
    /\ frames = MaxStreamFrames
    /\ pcT = "ended"
    /\ iterations > 0

\* C25: the left button's press and release events of a run alternate,
\* starting with a press: no press while the button is held, no release
\* while it is up.
C25_PressesAlternate ==
    LET events == the_mouse.sent
    IN  /\ events # <<>> => events[1] = "LEFTDOWN"
        /\ \A k \in 1..(Len(events) - 1) : events[k] # events[k + 1]

\* C26: when the process exits with 0 no button is held.
C26_NoButtonHeldAtExit ==
    exit_code = <<0>> => (~the_mouse.left /\ ~the_mouse.right)

\* C27: when the screen capture could not be opened, main has segmented no
\* frame and has issued no move, press or release.
C27_NothingBeforeFatalExit ==
    capture_opened = "no" =>
      /\ segments = 0
      /\ moves = 0
      /\ the_mouse.sent = <<>>

\* no two fingertips of a list share an id
C28_DistinctIds(list) ==
    \A i, j \in 1..Len(list) : i # j => list[i].id # list[j].id

C28_State ==
    /\ C28_DistinctIds([n \in 1..Len(m_TrackingMemory) |->
                           m_TrackingMemory[n].finger])
    /\ C28_DistinctIds(fingertips)

\* the matching and emitting part of a detect call
C28_Step ==
    (pcM = "track" /\ pcM' = "decide") =>
      /\ Len(fingertips') = Len(m_Candidates)
      /\ \A c \in 1..Len(m_Candidates) :
           Cardinality({k \in 1..Len(fingertips') :
                          /\ fingertips'[k].point = m_Candidates[c].first
                          /\ fingertips'[k].com = m_Candidates[c].second}) = 1
      /\ \A n \in 1..Len(m_TrackingMemory) :
           Cardinality({k \in 1..Len(fingertips') :
                          /\ fingertips'[k].age > 1
                          /\ fingertips'[k].id = m_TrackingMemory[n].finger.id})
             <= 1
      /\ \A k \in 1..Len(fingertips') :
           IF fingertips'[k].age > 1
           THEN \E n \in 1..Len(m_TrackingMemory) :
                  /\ m_TrackingMemory[n].finger.id = fingertips'[k].id
                  /\ m_TrackingMemory[n].finger.age + 1 = fingertips'[k].age
           ELSE /\ fingertips'[k].id >= m_NextID
                /\ fingertips'[k].id < m_NextID'

\* C28: after every detect call no two entries of the tracking memory and
\* no two emitted fingertips share an id; the call emits each of its
\* candidates exactly once, as the continuation of a memory entry or as a
\* new fingertip with a fresh id, and no memory entry is continued by two
\* candidates.
C28_UniqueIds == [](C28_State) /\ [][C28_Step]_vars

\* A call has continued one finger and added a new one while a third
\* finger, not matched, is still remembered.
C28_Witness ==
    /\ pcM = "decide"
    /\ Len(fingertips) = 2
    /\ fingertips[1].age > 1
    /\ fingertips[2].age = 1
    /\ Len(m_TrackingMemory) >= 3

\* C29: when calibrate returns, the screen contour, the view homography, the
\* correction map, the reflectance map and the colour map were all written by
\* the last iteration of its loop, and an iteration in which a detection
\* fails writes neither the homography nor the correction map.
C29_AllOfFinalIteration ==
    pcV = "done" =>
        \A member \in DOMAIN produced : produced[member] = attempt

C29_FailedLeavesGeometry ==
    (pcV = "geometric" /\ \E n \in 1..4 : stages'[n] = "failed") =>
        /\ produced'.m_ViewHomography = produced.m_ViewHomography
        /\ produced'.m_CorrectionMap = produced.m_CorrectionMap

C29_FinalIteration ==
    [](C29_AllOfFinalIteration) /\ [][C29_FailedLeavesGeometry]_vars

\* calibrate returned from its third iteration, after an iteration that
\* stored a contour, a homography and a correction map and then failed the
\* coverage check
C29_Witness ==
    /\ pcV = "done"
    /\ attempt = MaxAttempts
    /\ feedback = "Please move the camera closer"
    /\ produced.m_ViewHomography = MaxAttempts

\* C30: every index of m_ColourMap that predict reads for a pixel is one of
\* the 512 slots, also for a pixel with a channel at 255.
C30_ReadsInRange ==
    \A n \in DOMAIN lut_reads : lut_reads[n] \in 0..(ColourMapSize - 1)

\* predict has read the map for a white pixel, whose upper corner is the last
\* slot
C30_Witness ==
    /\ pcD = "return"
    /\ colour = <<ChannelMax, ChannelMax, ChannelMax>>
    /\ Len(lut_reads) = 8
    /\ lut_reads[7] = ColourMapSize - 1

====
